---- MODULE Spec2Model ----
(***************************************************************************)
(* Cart -> Order transition with stock management                          *)
(* (backend/app/services/order_service.py and the repositories it uses),   *)
(* the cart calls (cart_service.py) and the catalogue read through the     *)
(* Redis cache (product_service.py, utils/cache.py).                       *)
(*                                                                         *)
(* Every request runs in its own SQLAlchemy session (api/deps.py get_db,   *)
(* sessionmaker(autocommit=False, autoflush=False), expire_on_commit at    *)
(* its default True).  A worker's step is one database read or one commit; *)
(* what the session holds between them is the worker's local state.        *)
(* Money is counted in thousandths of a currency unit.                     *)
(***************************************************************************)
EXTENDS Integers, Sequences, FiniteSets, TLC

\* ---------------------------------------------------------------- bounds
MaxStock == 2
MaxQty == 2
MaxRequests == 3
MaxTick == 2

\* ------------------------------------------------------------- universes
Products == {"p1", "p2"}
Users == {"u1", "u2"}
Workers == {"w1", "w2"}
None == "None"

PENDING == "pending"
CONFIRMED == "confirmed"
PROCESSING == "processing"
SHIPPED == "shipped"
DELIVERED == "delivered"
CANCELLED == "cancelled"
OrderStatus == {PENDING, CONFIRMED, PROCESSING, SHIPPED, DELIVERED, CANCELLED}

HTTP_200_OK == 200
HTTP_201_CREATED == 201
HTTP_204_NO_CONTENT == 204
HTTP_400_BAD_REQUEST == 400
HTTP_403_FORBIDDEN == 403
HTTP_404_NOT_FOUND == 404
HTTP_500_INTERNAL_SERVER_ERROR == 500

\* products.price of the catalogue (thousandths): 2.503 and 1.000
PriceOf == [p \in Products |-> IF p = "p1" THEN 2503 ELSE 1000]

VARIABLES
    stock,          \* products.stock
    price,          \* products.price
    carts,          \* users owning a row of table carts
    cart_items,     \* rows of cart_items per cart, in id order
    orders,         \* table orders, indexed by id
    order_items,    \* rows of order_items per order id
    pc,             \* position of each request handler
    req,            \* the request a worker serves
    loc,            \* the objects its session holds
    result,         \* the response of its last request
    nreq,           \* requests served so far
    initial_stock,  \* history: stock before any order existed
    pre,            \* history: the database as a request found it
    exists,         \* ids of the rows of table products
    cache,          \* the Redis keys: a value, or a miss
    lastupd,        \* history: the last write ProductService made per product
    categories,     \* table categories: the name of each row, by id
    auth,           \* tables refresh_tokens and password_reset_tokens, the clock
    redis           \* whether the cache answers

vars == <<stock, price, carts, cart_items, orders, order_items,
          pc, req, loc, result, nreq, initial_stock, pre,
          exists, cache, lastupd, categories, auth, redis>>

\* what the order, cart and product handlers never write
elsewhere == <<categories, auth, redis>>

db == <<stock, price, exists, carts, cart_items, orders, order_items>>

\* the cache and the history of the catalogue's writes
catalog == <<cache, lastupd>>

\* ---------------------------------------------------------------- helpers
SeqSum(s, F(_)) ==
    LET RECURSIVE go(_)
        go(i) == IF i = 0 THEN 0 ELSE F(s[i]) + go(i - 1)
    IN  go(Len(s))

\* quantity of product p over a sequence of cart or order items
ItemQty(items, p) ==
    LET q(it) == IF it.product_id = p THEN it.quantity ELSE 0
    IN  SeqSum(items, q)

\* round(x, 2) on an amount in thousandths: nearest hundredth, ties to even
Round2(m) ==
    LET r == m % 10
        lo == m - r
    IN  IF r < 5 THEN lo
        ELSE IF r > 5 THEN lo + 10
        ELSE IF (lo \div 10) % 2 = 0 THEN lo ELSE lo + 10

\* a field a request does not carry: price is > 0 and stock >= 0 when given
Unset == -1

NoReq == [op |-> "none", user_id |-> None, order_id |-> 0,
          status |-> None, fields |-> FALSE,
          product |-> "", category |-> 0, quantity |-> 0,
          price |-> Unset, stock |-> Unset, name |-> "", token |-> <<>>,
          skip |-> 0, limit |-> 100]

NoLoc == [items |-> <<>>, data |-> <<>>, total |-> 0, order_id |-> 0,
          status |-> None, customer |-> None, todo |-> <<>>,
          dirty |-> {}, newstock |-> [p \in Products |-> 0],
          val |-> {}, keys |-> {}, patterns |-> <<>>,
          quantity |-> 0, seen |-> 0, expired |-> FALSE]

NoResult == [code |-> 0, err |-> "", product |-> "", available |-> 0,
             requested |-> 0, order_id |-> 0, data |-> {}]

NoPre == [stock |-> [p \in Products |-> 0], price |-> [p \in Products |-> 0],
          items |-> <<>>, norders |-> 0, status |-> None, customer |-> None,
          carts |-> {}, cart_items |-> [u \in Users |-> <<>>],
          failed |-> <<>>, categories |-> [c \in 1..3 |-> ""]]

Ok(code, oid) == [NoResult EXCEPT !.code = code, !.order_id = oid]
Err(code, what) == [NoResult EXCEPT !.code = code, !.err = what]

\* ------------------------------------------------------------ the cache
\* products.category_id of the catalogue; 0 in a request: no category filter
CategoryOf == [p \in Products |-> IF p = "p1" THEN 1 ELSE 2]
Categories == {CategoryOf[p] : p \in Products}

\* the parts run together, nothing between them
JoinedBare(parts) == parts

\* ":".join(parts): a string is the sequence of its pieces, ":" among them
Joined(parts) ==
    LET RECURSIVE join(_)
        join(ps) == IF Len(ps) <= 1 THEN ps
                    ELSE <<Head(ps), ":">> \o join(Tail(ps))
    IN  join(parts)

\* utils/cache.py get_cache_key: the parts, joined with ":"
get_cache_key(parts) == Joined(parts)

\* product_service.py line 67
DetailKey(p) == get_cache_key(<<"products", "detail", p>>)

\* the page parameters of GET /products: skip and limit
Skips == {0, 1}
Limits == {1, 100}
DefaultSkip == 0
DefaultLimit == 100

\* product_service.py lines 36-40; category_id 0 or None gives "all"
PageKey(skip, limit, category_id) ==
    get_cache_key(<<"products", "list",
                    "skip=" \o ToString(skip), "limit=" \o ToString(limit),
                    IF category_id # 0
                    THEN "category=" \o ToString(category_id) ELSE "all">>)

\* the list key with skip and limit at their defaults
ListKey(category_id) == PageKey(DefaultSkip, DefaultLimit, category_id)

\* ids of table categories, and the names a request gives
CategoryIds == 1..3
CategoryNames == {"snacks", "drinks", "sauces"}
NoCategory == ""
DeletedCategory == "deleted"

\* category_service.py lines 25 and 53
CategoryListKey == get_cache_key(<<"categories", "list">>)
CategoryKey(c) == get_cache_key(<<"categories", "detail", ToString(c)>>)

CacheKeys == {DetailKey(p) : p \in Products}
                \cup {PageKey(s, l, c) : s \in Skips, l \in Limits,
                                          c \in {0} \cup Categories}
                \cup {CategoryListKey} \cup {CategoryKey(c) : c \in CategoryIds}

\* a pattern of redis KEYS: a key, or the joined parts followed by ":*"
Exactly(key) == key
StartingWith(parts) == Joined(parts) \o <<":", "*">>

\* glob matching: * stands for any run of pieces, the rest is literal
Matches(pattern, key) ==
    IF pattern # <<>> /\ pattern[Len(pattern)] = "*"
    THEN LET n == Len(pattern) - 1
         IN  /\ Len(key) >= n
             /\ SubSeq(key, 1, n) = SubSeq(pattern, 1, n)
    ELSE key = pattern

\* what a key holds: the rows serialized under it, or nothing
CacheMiss == [hit |-> FALSE, val |-> {}]
Cached(rows) == [hit |-> TRUE, val |-> rows]

\* cache.py lines 35-40 and 45-50: caching is switched off
\* (settings.CACHE_ENABLED), there is no client (get_redis() is None), or the
\* call raises and the exception is caught
Unavailable == redis # "up"

\* a failing call takes the value Redis holds all the same
get_from_cache_unguarded(key) == cache[key]

\* cache.py lines 26-50: the value of the key, None without the cache
get_from_cache(key) == IF Unavailable THEN CacheMiss ELSE cache[key]

\* cache.py lines 53-79: the keys after setex, untouched without the cache
set_in_cache(key, rows) ==
    IF Unavailable THEN cache ELSE [cache EXCEPT ![key] = Cached(rows)]

\* history: the cache calls of a request that went unanswered
Failed(w, fn) ==
    IF Unavailable THEN [pre EXCEPT ![w].failed = Append(@, fn)] ELSE pre

\* history: the record of a request that starts with get_from_cache
FirstGet(snapshot) ==
    [snapshot EXCEPT !.failed = IF Unavailable THEN <<"get">> ELSE <<>>]

\* history: no write yet
NoUpdate == [done |-> FALSE, old |-> {}, cached |-> FALSE]

\* the seconds of the clock
Ticks == 0..MaxTick

\* core/security.py lines 96-99: the refresh token of a user is the signed
\* claims sub, email, exp and type; exp is a whole second, so the tokens a
\* user is given within one second are the same string
create_refresh_token(user, second) == <<user, second>>
RefreshTokens == {create_refresh_token(u, t) : u \in Users, t \in Ticks}

\* no refresh token stored, no password reset asked for; history: used
\* counts the refresh calls that succeeded per token, killed holds the
\* tokens a logout or a password reset has revoked, late the tokens a
\* refresh call succeeded with after that
NoAuth == [refresh |-> [t \in RefreshTokens |-> "none"],
           reset |-> [u \in Users |-> "none"],
           now |-> 0,
           used |-> [t \in RefreshTokens |-> 0],
           killed |-> {}, late |-> {}]

\* ------------------------------------------------------------------- Init
Item(p, q) == [product_id |-> p, quantity |-> q]

\* carts of one item and carts of two items, one per product
OneItemLists == {<<Item(p, q)>> : p \in Products, q \in 1..MaxQty}
TwoItemLists ==
    {<<Item("p1", q1), Item("p2", q2)>> : q1 \in 1..MaxQty, q2 \in 1..MaxQty}

\* the subtotal without the quantity
ItemsDataUnitSubtotal(items, prices) ==
    [i \in 1..Len(items) |->
        [product_id |-> items[i].product_id,
         quantity   |-> items[i].quantity,
         unit_price |-> prices[items[i].product_id],
         subtotal   |-> prices[items[i].product_id]]]

\* order_items_data as create_order_from_cart builds it from a cart
ItemsData(items, prices) ==
    [i \in 1..Len(items) |->
        [product_id |-> items[i].product_id,
         quantity   |-> items[i].quantity,
         unit_price |-> prices[items[i].product_id],
         subtotal   |-> items[i].quantity * prices[items[i].product_id]]]

Subtotal(d) == d.subtotal

NewOrder(u, st, data) ==
    [user_id |-> u, status |-> st,
     total_amount |-> Round2(SeqSum(data, Subtotal)),
     customer_name |-> "orig"]

\* An order placed earlier: none, or one order of user u in status st
EarlierOrders(OrderUsers, Statuses, Lists) ==
    {<<>>} \cup {<<[user |-> u, status |-> st, items |-> l]>> :
                    u \in OrderUsers, st \in Statuses, l \in Lists}

\* the cart of a user: no row, or a row with these items
NoCart == [row |-> FALSE, items |-> <<>>]
CartsOf(Lists) == {[row |-> TRUE, items |-> l] : l \in Lists}

InitialCategories ==
    [c \in CategoryIds |-> IF c = 1 THEN "snacks"
                           ELSE IF c = 2 THEN "drinks" ELSE NoCategory]

InitBase(CartChoices, Earlier) ==
    /\ price = PriceOf
    /\ stock \in [Products -> 0..MaxStock]
    /\ \E c \in [Users -> UNION {CartChoices[u] : u \in Users}] :
        /\ \A u \in Users : c[u] \in CartChoices[u]
        /\ carts = {u \in Users : c[u].row}
        /\ cart_items = [u \in Users |-> c[u].items]
    /\ \E e \in Earlier :
        /\ orders = [i \in 1..Len(e) |->
                        NewOrder(e[i].user, e[i].status,
                                 ItemsData(e[i].items, PriceOf))]
        /\ order_items = [i \in 1..Len(e) |-> ItemsData(e[i].items, PriceOf)]
        /\ initial_stock =
            [p \in Products |->
                stock[p] + (IF e # <<>> /\ e[1].status # CANCELLED
                            THEN ItemQty(e[1].items, p) ELSE 0)]
    /\ exists = Products
    /\ cache = [k \in CacheKeys |-> CacheMiss]
    /\ lastupd = [p \in Products |-> NoUpdate]
    /\ pc = [w \in Workers |-> "idle"]
    /\ req = [w \in Workers |-> NoReq]
    /\ loc = [w \in Workers |-> NoLoc]
    /\ result = [w \in Workers |-> NoResult]
    /\ pre = [w \in Workers |-> NoPre]
    /\ nreq = 0

\* the cache answers, no session has been opened
InitWith(CartChoices, Earlier) ==
    /\ InitBase(CartChoices, Earlier)
    /\ categories = InitialCategories
    /\ auth = NoAuth
    /\ redis = "up"


\* ------------------------------------------------------- request lifecycle
\* a worker takes the next request
MayBegin(w) ==
    /\ pc[w] = "idle"
    /\ nreq < MaxRequests

\* history: what the database held when the request arrived; items are the
\* cart's (create) or the order's (cancel, update), status is the order's
Snapshot(items, st) ==
    [stock |-> stock, price |-> price, items |-> items,
     norders |-> Len(orders), status |-> st, customer |-> None,
     carts |-> carts, cart_items |-> cart_items, failed |-> <<>>,
     categories |-> categories]

\* history: the order a request names, as get_with_items finds it
OrderSnapshot(o) ==
    IF o \in DOMAIN orders
    THEN [Snapshot(order_items[o], orders[o].status)
             EXCEPT !.customer = orders[o].customer_name]
    ELSE Snapshot(<<>>, None)

\* the handler returns (or raises HTTPException) with response res
Respond(w, res) ==
    /\ pc' = [pc EXCEPT ![w] = "done"]
    /\ result' = [result EXCEPT ![w] = res]
    /\ loc' = [loc EXCEPT ![w] = NoLoc]

\* the response is sent and get_db closes the session
Return(w) ==
    /\ pc[w] \in {"done", "aborted"}
    /\ pc' = [pc EXCEPT ![w] = "idle"]
    /\ req' = [req EXCEPT ![w] = NoReq]
    /\ result' = [result EXCEPT ![w] = NoResult]
    /\ pre' = [pre EXCEPT ![w] = NoPre]
    /\ UNCHANGED <<elsewhere, db, catalog, loc, nreq, initial_stock>>

\* the process dies in the middle of a request: what the session held and
\* had not committed is lost, what it had committed stays
Abort(w) ==
    /\ pc[w] \notin {"idle", "done", "aborted"}
    /\ pc' = [pc EXCEPT ![w] = "aborted"]
    /\ loc' = [loc EXCEPT ![w] = NoLoc]
    /\ UNCHANGED <<elsewhere, db, catalog, req, result, nreq, initial_stock, pre>>

\* ------------------------------------------------ create_order_from_cart
\* the comparison off by one
InsufficientOffByOne(available, requested) == available + 1 < requested

\* line 68: product.stock < cart_item.quantity
Insufficient(available, requested) == available < requested

\* index of the first cart item the loop of lines 64-84 rejects, 0 if none
FirstShort(items, st) ==
    LET bad == {i \in 1..Len(items) :
                    Insufficient(st[items[i].product_id], items[i].quantity)}
    IN  IF bad = {} THEN 0 ELSE CHOOSE i \in bad : \A j \in bad : i <= j

InsufficientStock(it, st) ==
    [NoResult EXCEPT !.code = HTTP_400_BAD_REQUEST, !.err = "insufficient_stock",
                     !.product = it.product_id,
                     !.available = st[it.product_id],
                     !.requested = it.quantity]

\* the empty cart let through
CartEmptyUnchecked(items) == FALSE

\* line 54: not cart.items
CartEmpty(items) == items = <<>>

\* lines 47-84: load the cart with items and products, validate, total up
CreateOrderLoad(w, u) ==
    /\ MayBegin(w)
    /\ nreq' = nreq + 1
    /\ req' = [req EXCEPT ![w] = [NoReq EXCEPT !.op = "create", !.user_id = u]]
    /\ pre' = [pre EXCEPT ![w] = Snapshot(cart_items[u], None)]
    /\ LET items == cart_items[u]
           short == FirstShort(items, stock)
           data  == ItemsData(items, price)
       IN  IF u \notin carts
             THEN Respond(w, Err(HTTP_404_NOT_FOUND, "no_cart"))
           ELSE IF CartEmpty(items)
             THEN Respond(w, Err(HTTP_400_BAD_REQUEST, "cart_empty"))
           ELSE IF short # 0
             THEN Respond(w, InsufficientStock(items[short], stock))
           ELSE /\ pc' = [pc EXCEPT ![w] = "co_add_order"]
                /\ loc' = [loc EXCEPT ![w] =
                              [NoLoc EXCEPT !.items = items, !.data = data,
                                            !.total = SeqSum(data, Subtotal)]]
                /\ UNCHANGED result
    /\ UNCHANGED <<elsewhere, db, catalog, initial_stock>>

\* lines 87-100: Order(status=PENDING, total_amount=round(total, 2)), commit
CreateOrderCommitOrder(w) ==
    /\ pc[w] = "co_add_order"
    /\ orders' = Append(orders,
                        [user_id |-> req[w].user_id, status |-> PENDING,
                         total_amount |-> Round2(loc[w].total),
                         customer_name |-> "orig"])
    /\ order_items' = Append(order_items, <<>>)
    /\ loc' = [loc EXCEPT ![w].order_id = Len(orders) + 1]
    /\ pc' = [pc EXCEPT ![w] = "co_add_items"]
    /\ UNCHANGED <<elsewhere, catalog, exists, stock, price, carts, cart_items, req, result, nreq,
                   initial_stock, pre>>

\* lines 103-106 and OrderItemRepository.bulk_create: add_all, commit
CreateOrderCommitItems(w) ==
    /\ pc[w] = "co_add_items"
    /\ order_items' = [order_items EXCEPT ![loc[w].order_id] = loc[w].data]
    /\ pc' = [pc EXCEPT ![w] = "co_reload_cart"]
    /\ UNCHANGED <<elsewhere, catalog, exists, stock, price, carts, cart_items, orders, req, loc, result,
                   nreq, initial_stock, pre>>

\* line 109: cart.items, expired by the commits, is loaded again
CreateOrderReloadCart(w) ==
    /\ pc[w] = "co_reload_cart"
    /\ loc' = [loc EXCEPT ![w].todo = cart_items[req[w].user_id]]
    /\ pc' = [pc EXCEPT ![w] = "co_decrement"]
    /\ UNCHANGED <<elsewhere, db, catalog, req, result, nreq, initial_stock, pre>>

\* line 111: product.stock -= cart_item.quantity, on the value the session
\* holds: the row as refreshed now, or the value this loop already changed
DecrementedByOne(current, quantity) == current - 1

Decremented(current, quantity) == current - quantity

CreateOrderDecrement(w) ==
    /\ pc[w] = "co_decrement"
    /\ loc[w].todo # <<>>
    /\ LET it  == Head(loc[w].todo)
           p   == it.product_id
           cur == IF p \in loc[w].dirty THEN loc[w].newstock[p] ELSE stock[p]
       IN  loc' = [loc EXCEPT ![w].todo = Tail(loc[w].todo),
                              ![w].dirty = loc[w].dirty \cup {p},
                              ![w].newstock[p] = Decremented(cur, it.quantity)]
    /\ UNCHANGED <<elsewhere, db, catalog, pc, req, result, nreq, initial_stock, pre>>

\* an UPDATE that adds the items' quantity to the row as it is now
FlushedAsIncrement(w) ==
    [p \in Products |-> stock[p] + ItemQty(loc[w].items, p)]

\* the UPDATE products SET stock = <value> the flush issues per changed row
Flushed(w) ==
    [p \in Products |-> IF p \in loc[w].dirty THEN loc[w].newstock[p] ELSE stock[p]]

\* lines 114-120 and CartItemRepository.clear_cart: DELETE the cart's items,
\* commit (flushing the changed stocks), read the order back for the response
CreateOrderClearCart(w) ==
    /\ pc[w] = "co_decrement"
    /\ loc[w].todo = <<>>
    /\ stock' = Flushed(w)
    /\ cart_items' = [cart_items EXCEPT ![req[w].user_id] = <<>>]
    /\ Respond(w, Ok(HTTP_201_CREATED, loc[w].order_id))
    /\ UNCHANGED <<elsewhere, catalog, exists, price, carts, orders, order_items, req, nreq,
                   initial_stock, pre>>


\* ----------------------------------------------------------- cancel_order
\* SHIPPED left out of the list
TooLateToCancelDelivered(st) == st \in {DELIVERED}

\* line 295: order.status in [SHIPPED, DELIVERED]
TooLateToCancel(st) == st \in {SHIPPED, DELIVERED}

\* line 304: product.stock += order_item.quantity, on the loaded value
Restored(current, quantity) == current + quantity

\* lines 302-304 over the items and products get_with_items loaded
RestoredStock(items, st) ==
    [p \in Products |-> Restored(st[p], ItemQty(items, p))]

OrderProducts(items) == {items[i].product_id : i \in 1..Len(items)}

\* lines 274-307: one joined SELECT of the order, its items and their
\* products, the checks, and the changes made on the loaded objects
CancelOrderLoad(w, caller, o) ==
    /\ MayBegin(w)
    /\ nreq' = nreq + 1
    /\ req' = [req EXCEPT ![w] =
                  [NoReq EXCEPT !.op = "cancel", !.user_id = caller, !.order_id = o]]
    /\ pre' = [pre EXCEPT ![w] = OrderSnapshot(o)]
    /\ IF o \notin DOMAIN orders
         THEN Respond(w, Err(HTTP_404_NOT_FOUND, "no_order"))
       ELSE IF caller # None /\ orders[o].user_id # caller
         THEN Respond(w, Err(HTTP_403_FORBIDDEN, "not_owner"))
       ELSE IF orders[o].status = CANCELLED
         THEN Respond(w, Err(HTTP_400_BAD_REQUEST, "already_cancelled"))
       ELSE IF TooLateToCancel(orders[o].status)
         THEN Respond(w, Err(HTTP_400_BAD_REQUEST, "cannot_cancel"))
       ELSE /\ pc' = [pc EXCEPT ![w] = "cancel_commit"]
            /\ loc' = [loc EXCEPT ![w] =
                          [NoLoc EXCEPT !.order_id = o,
                                        !.items = order_items[o],
                                        !.dirty = OrderProducts(order_items[o]),
                                        !.newstock = RestoredStock(order_items[o], stock),
                                        !.status = CANCELLED]]
            /\ UNCHANGED result
    /\ UNCHANGED <<elsewhere, db, catalog, initial_stock>>

\* the commit without the status change
CancelOrderCommitStockOnly(w) ==
    /\ pc[w] = "cancel_commit"
    /\ stock' = [p \in Products |->
                    IF p \in loc[w].dirty THEN loc[w].newstock[p] ELSE stock[p]]
    /\ pc' = [pc EXCEPT ![w] = "done"]
    /\ result' = [result EXCEPT ![w] = Ok(HTTP_200_OK, loc[w].order_id)]
    /\ loc' = [loc EXCEPT ![w] = NoLoc]
    /\ UNCHANGED <<elsewhere, catalog, exists, price, carts, cart_items, orders, order_items, req, nreq,
                   initial_stock, pre>>

\* lines 307-312: commit flushes the changed stocks and the status together
CancelOrderCommit(w) ==
    /\ pc[w] = "cancel_commit"
    /\ stock' = Flushed(w)
    /\ orders' = [orders EXCEPT ![loc[w].order_id].status = loc[w].status]
    /\ Respond(w, Ok(HTTP_200_OK, loc[w].order_id))
    /\ UNCHANGED <<elsewhere, catalog, exists, price, carts, cart_items, order_items, req, nreq,
                   initial_stock, pre>>

\* ----------------------------------------------------------- update_order
\* a delivered order let through
LeavesDeliveredUnchecked(current, new_status) == FALSE

\* line 241: order.status == DELIVERED and new_status != DELIVERED
LeavesDelivered(current, new_status) ==
    current = DELIVERED /\ new_status # DELIVERED

\* lines 213-252: load, ownership check, status rules, changes on the object
UpdateOrderLoad(w, caller, o, st, fields) ==
    /\ MayBegin(w)
    /\ nreq' = nreq + 1
    /\ req' = [req EXCEPT ![w] =
                  [NoReq EXCEPT !.op = "update", !.user_id = caller,
                                !.order_id = o, !.status = st,
                                !.fields = fields]]
    /\ pre' = [pre EXCEPT ![w] = OrderSnapshot(o)]
    /\ IF o \notin DOMAIN orders
         THEN Respond(w, Err(HTTP_404_NOT_FOUND, "no_order"))
       ELSE IF caller # None /\ orders[o].user_id # caller /\ fields
         THEN Respond(w, Err(HTTP_403_FORBIDDEN, "not_owner"))
       ELSE IF st # None /\ orders[o].status = CANCELLED
         THEN Respond(w, Err(HTTP_400_BAD_REQUEST, "order_cancelled"))
       ELSE IF st # None /\ LeavesDelivered(orders[o].status, st)
         THEN Respond(w, Err(HTTP_400_BAD_REQUEST, "order_delivered"))
       ELSE /\ pc' = [pc EXCEPT ![w] = "update_commit"]
            /\ loc' = [loc EXCEPT ![w] =
                          [NoLoc EXCEPT
                             !.order_id = o,
                             !.status = IF st # None /\ st # orders[o].status
                                        THEN st ELSE None,
                             !.customer = IF fields THEN "edited" ELSE None]]
            /\ UNCHANGED result
    /\ UNCHANGED <<elsewhere, db, catalog, initial_stock>>

\* the commit also totalling the order again at the products' prices of now
UpdateOrderCommitRepriced(w) ==
    /\ pc[w] = "update_commit"
    /\ LET o == loc[w].order_id
           s1 == IF loc[w].status # None THEN loc[w].status ELSE orders[o].status
           again == ItemsData(order_items[o], price)
       IN  orders' = [orders EXCEPT ![o].status = s1,
                                    ![o].total_amount = Round2(SeqSum(again, Subtotal))]
    /\ pc' = [pc EXCEPT ![w] = "done"]
    /\ result' = [result EXCEPT ![w] = Ok(HTTP_200_OK, loc[w].order_id)]
    /\ loc' = [loc EXCEPT ![w] = NoLoc]
    /\ UNCHANGED <<elsewhere, catalog, exists, stock, price, carts, cart_items, order_items,
                   req, nreq, initial_stock, pre>>

\* lines 254-258: commit writes the attributes that changed
UpdateOrderCommit(w) ==
    /\ pc[w] = "update_commit"
    /\ LET o == loc[w].order_id
           s1 == IF loc[w].status # None THEN loc[w].status ELSE orders[o].status
           c1 == IF loc[w].customer # None THEN loc[w].customer
                 ELSE orders[o].customer_name
       IN  orders' = [orders EXCEPT ![o].status = s1, ![o].customer_name = c1]
    /\ Respond(w, Ok(HTTP_200_OK, loc[w].order_id))
    /\ UNCHANGED <<elsewhere, catalog, exists, stock, price, carts, cart_items, order_items, req, nreq,
                   initial_stock, pre>>

\* ------------------------------------------------------------ CartService
\* the item never found
ItemIndexNone(items, p) == 0

\* index of the cart item of product p (get_by_cart_and_product), 0 if none
ItemIndex(items, p) ==
    LET at == {i \in 1..Len(items) : items[i].product_id = p}
    IN  IF at = {} THEN 0 ELSE CHOOSE i \in at : \A j \in at : i <= j

\* add_to_cart lines 74-86: the product and the first stock check
AddToCartLoad(w, u, p, q) ==
    /\ MayBegin(w)
    /\ nreq' = nreq + 1
    /\ req' = [req EXCEPT ![w] =
                  [NoReq EXCEPT !.op = "add_to_cart", !.user_id = u,
                                !.product = p, !.quantity = q]]
    /\ pre' = [pre EXCEPT ![w] = Snapshot(cart_items[u], None)]
    /\ IF p \notin exists
         THEN Respond(w, Err(HTTP_404_NOT_FOUND, "no_product"))
       ELSE IF Insufficient(stock[p], q)
         THEN Respond(w, Err(HTTP_400_BAD_REQUEST, "insufficient_stock"))
       ELSE /\ pc' = [pc EXCEPT ![w] = "ac_get_cart"]
            /\ loc' = [loc EXCEPT ![w] = [NoLoc EXCEPT !.seen = stock[p]]]
            /\ UNCHANGED result
    /\ UNCHANGED <<elsewhere, db, catalog, initial_stock>>

\* get_or_create_cart line 32: the user's cart, if there is one
AddToCartGetCart(w) ==
    /\ pc[w] = "ac_get_cart"
    /\ pc' = [pc EXCEPT ![w] = IF req[w].user_id \in carts THEN "ac_get_item"
                                ELSE "ac_create_cart"]
    /\ UNCHANGED <<elsewhere, db, catalog, req, loc, result, nreq, initial_stock, pre>>

\* create_for_user: INSERT the cart and commit, which expires what the
\* session holds; carts.user_id is unique
AddToCartCreateCart(w) ==
    /\ pc[w] = "ac_create_cart"
    /\ IF req[w].user_id \in carts
         THEN /\ Respond(w, Err(HTTP_500_INTERNAL_SERVER_ERROR, "integrity"))
              /\ UNCHANGED carts
         ELSE /\ carts' = carts \cup {req[w].user_id}
              /\ loc' = [loc EXCEPT ![w].expired = TRUE]
              /\ pc' = [pc EXCEPT ![w] = "ac_get_item"]
              /\ UNCHANGED result
    /\ UNCHANGED <<elsewhere, catalog, exists, stock, price, cart_items, orders, order_items,
                   req, nreq, initial_stock, pre>>

\* the requested quantity alone
NewQuantityRequested(existing, requested) == requested

\* line 96: new_quantity = existing_item.quantity + item_data.quantity
NewQuantity(existing, requested) == existing + requested

\* lines 92-105: the item of this product, and the second stock check on
\* product.stock as the session holds it (read again if a commit expired it)
AddToCartGetItem(w) ==
    /\ pc[w] = "ac_get_item"
    /\ LET u == req[w].user_id
           p == req[w].product
           i == ItemIndex(cart_items[u], p)
           available == IF loc[w].expired THEN stock[p] ELSE loc[w].seen
           new_quantity == NewQuantity(cart_items[u][i].quantity, req[w].quantity)
       IN  IF i = 0
             THEN /\ loc' = [loc EXCEPT ![w].status = "insert",
                                        ![w].quantity = req[w].quantity]
                  /\ pc' = [pc EXCEPT ![w] = "ac_commit"]
                  /\ UNCHANGED result
           ELSE IF Insufficient(available, new_quantity)
             THEN Respond(w, Err(HTTP_400_BAD_REQUEST, "insufficient_stock"))
           ELSE /\ loc' = [loc EXCEPT ![w].status = "update",
                                      ![w].quantity = new_quantity]
                /\ pc' = [pc EXCEPT ![w] = "ac_commit"]
                /\ UNCHANGED result
    /\ UNCHANGED <<elsewhere, db, catalog, req, nreq, initial_stock, pre>>

\* the cart's items with the quantity of product p's item set to q
WithQuantity(items, p, q) ==
    [i \in 1..Len(items) |->
        IF i = ItemIndex(items, p) THEN Item(p, q) ELSE items[i]]

\* lines 105-107 or 110-117: commit the changed quantity or the new item
AddToCartCommit(w) ==
    /\ pc[w] = "ac_commit"
    /\ LET u == req[w].user_id
           p == req[w].product
       IN  IF p \notin exists
                \/ (loc[w].status = "update" /\ ItemIndex(cart_items[u], p) = 0)
           THEN /\ Respond(w, Err(HTTP_500_INTERNAL_SERVER_ERROR, "integrity"))
                /\ UNCHANGED cart_items
           ELSE /\ cart_items' =
                     [cart_items EXCEPT ![u] =
                         IF loc[w].status = "update"
                         THEN WithQuantity(cart_items[u], p, loc[w].quantity)
                         ELSE Append(cart_items[u], Item(p, loc[w].quantity))]
                /\ Respond(w, Ok(HTTP_200_OK, 0))
    /\ UNCHANGED <<elsewhere, catalog, exists, stock, price, carts, orders, order_items,
                   req, nreq, initial_stock, pre>>

\* update_cart_item lines 139-170: cart, product, stock check, item
UpdateCartItemLoad(w, u, p, q) ==
    /\ MayBegin(w)
    /\ nreq' = nreq + 1
    /\ req' = [req EXCEPT ![w] =
                  [NoReq EXCEPT !.op = "update_cart_item", !.user_id = u,
                                !.product = p, !.quantity = q]]
    /\ pre' = [pre EXCEPT ![w] = Snapshot(cart_items[u], None)]
    /\ IF u \notin carts
         THEN Respond(w, Err(HTTP_404_NOT_FOUND, "no_cart"))
       ELSE IF p \notin exists
         THEN Respond(w, Err(HTTP_404_NOT_FOUND, "no_product"))
       ELSE IF Insufficient(stock[p], q)
         THEN Respond(w, Err(HTTP_400_BAD_REQUEST, "insufficient_stock"))
       ELSE IF ItemIndex(cart_items[u], p) = 0
         THEN Respond(w, Err(HTTP_404_NOT_FOUND, "no_item"))
       ELSE /\ pc' = [pc EXCEPT ![w] = "uc_commit"]
            /\ loc' = [loc EXCEPT ![w] = [NoLoc EXCEPT !.quantity = q]]
            /\ UNCHANGED result
    /\ UNCHANGED <<elsewhere, db, catalog, initial_stock>>

\* lines 170-176: commit the new quantity
UpdateCartItemCommit(w) ==
    /\ pc[w] = "uc_commit"
    /\ LET u == req[w].user_id
           p == req[w].product
       IN  IF ItemIndex(cart_items[u], p) = 0
           THEN /\ Respond(w, Err(HTTP_500_INTERNAL_SERVER_ERROR, "integrity"))
                /\ UNCHANGED cart_items
           ELSE /\ cart_items' = [cart_items EXCEPT ![u] =
                                     WithQuantity(cart_items[u], p, loc[w].quantity)]
                /\ Respond(w, Ok(HTTP_200_OK, 0))
    /\ UNCHANGED <<elsewhere, catalog, exists, stock, price, carts, orders, order_items,
                   req, nreq, initial_stock, pre>>

\* the cart's items without the first item of product p
WithoutItem(items, p) ==
    LET i == ItemIndex(items, p)
    IN  SubSeq(items, 1, i - 1) \o SubSeq(items, i + 1, Len(items))

\* remove_from_cart lines 193-206 and delete_by_cart_and_product line 124
RemoveFromCartLoad(w, u, p) ==
    /\ MayBegin(w)
    /\ nreq' = nreq + 1
    /\ req' = [req EXCEPT ![w] =
                  [NoReq EXCEPT !.op = "remove_from_cart", !.user_id = u,
                                !.product = p]]
    /\ pre' = [pre EXCEPT ![w] = Snapshot(cart_items[u], None)]
    /\ IF u \notin carts
         THEN Respond(w, Err(HTTP_404_NOT_FOUND, "no_cart"))
       ELSE IF ItemIndex(cart_items[u], p) = 0
         THEN Respond(w, Err(HTTP_404_NOT_FOUND, "no_item"))
       ELSE /\ pc' = [pc EXCEPT ![w] = "rc_commit"]
            /\ UNCHANGED <<loc, result>>
    /\ UNCHANGED <<elsewhere, db, catalog, initial_stock>>

\* delete_by_cart_and_product lines 126-128: DELETE the item, commit
RemoveFromCartCommit(w) ==
    /\ pc[w] = "rc_commit"
    /\ LET u == req[w].user_id
           p == req[w].product
       IN  IF ItemIndex(cart_items[u], p) = 0
           THEN /\ Respond(w, Err(HTTP_500_INTERNAL_SERVER_ERROR, "integrity"))
                /\ UNCHANGED cart_items
           ELSE /\ cart_items' = [cart_items EXCEPT ![u] =
                                     WithoutItem(cart_items[u], p)]
                /\ Respond(w, Ok(HTTP_200_OK, 0))
    /\ UNCHANGED <<elsewhere, catalog, exists, stock, price, carts, orders, order_items,
                   req, nreq, initial_stock, pre>>

\* clear_cart lines 226-231: the user's cart
ClearCartLoad(w, u) ==
    /\ MayBegin(w)
    /\ nreq' = nreq + 1
    /\ req' = [req EXCEPT ![w] =
                  [NoReq EXCEPT !.op = "clear_cart", !.user_id = u]]
    /\ pre' = [pre EXCEPT ![w] = Snapshot(cart_items[u], None)]
    /\ IF u \notin carts
         THEN Respond(w, Err(HTTP_404_NOT_FOUND, "no_cart"))
         ELSE /\ pc' = [pc EXCEPT ![w] = "cc_commit"]
              /\ UNCHANGED <<loc, result>>
    /\ UNCHANGED <<elsewhere, db, catalog, initial_stock>>

\* CartItemRepository.clear_cart: DELETE the cart's items, commit
ClearCartCommit(w) ==
    /\ pc[w] = "cc_commit"
    /\ cart_items' = [cart_items EXCEPT ![req[w].user_id] = <<>>]
    /\ Respond(w, Ok(HTTP_200_OK, 0))
    /\ UNCHANGED <<elsewhere, catalog, exists, stock, price, carts, orders, order_items,
                   req, nreq, initial_stock, pre>>

\* ------------------------------------------------- OrderService.reorder
\* lines 368-375 and 385-388: min(quantity, product.stock)
Capped(quantity, available) ==
    IF available < quantity THEN available ELSE quantity

\* lines 329-342: the order with its items, 404 without it, 403 if it is
\* not the caller's
ReorderLoad(w, u, o) ==
    /\ MayBegin(w)
    /\ nreq' = nreq + 1
    /\ req' = [req EXCEPT ![w] =
                  [NoReq EXCEPT !.op = "reorder", !.user_id = u, !.order_id = o]]
    /\ pre' = [pre EXCEPT ![w] = Snapshot(cart_items[u], None)]
    /\ IF o \notin DOMAIN orders
         THEN Respond(w, Err(HTTP_404_NOT_FOUND, "no_order"))
       ELSE IF orders[o].user_id # u
         THEN Respond(w, Err(HTTP_403_FORBIDDEN, "not_owner"))
       ELSE /\ pc' = [pc EXCEPT ![w] = "ro_cart"]
            /\ loc' = [loc EXCEPT ![w] = [NoLoc EXCEPT !.todo = order_items[o]]]
            /\ UNCHANGED result
    /\ UNCHANGED <<elsewhere, db, catalog, initial_stock>>

\* lines 345-347: the caller's cart, created if there is none
ReorderGetCart(w) ==
    /\ pc[w] = "ro_cart"
    /\ carts' = carts \cup {req[w].user_id}
    /\ pc' = [pc EXCEPT ![w] = "ro_item"]
    /\ UNCHANGED <<elsewhere, catalog, exists, stock, price, cart_items, orders,
                   order_items, req, loc, result, nreq, initial_stock, pre>>

\* the cart after lines 355-400 for one order item: a product that is gone
\* or has no stock is skipped, the quantity is capped to the stock, an item
\* of the cart is merged, capped again
Reordered(items, it) ==
    LET p == it.product_id
        quantity == Capped(it.quantity, stock[p])
        i == ItemIndex(items, p)
    IN  IF p \notin exists \/ stock[p] = 0 THEN items
        ELSE IF i # 0
          THEN WithQuantity(items, p, Capped(items[i].quantity + quantity, stock[p]))
        ELSE Append(items, Item(p, quantity))

\* lines 354-405: the next order item
ReorderItem(w) ==
    /\ pc[w] = "ro_item"
    /\ loc[w].todo # <<>>
    /\ cart_items' = [cart_items EXCEPT ![req[w].user_id] =
                          Reordered(@, Head(loc[w].todo))]
    /\ loc' = [loc EXCEPT ![w].todo = Tail(@)]
    /\ UNCHANGED <<elsewhere, catalog, exists, stock, price, carts, orders,
                   order_items, pc, req, result, nreq, initial_stock, pre>>

\* lines 407-418: the last commit and the summary
ReorderCommit(w) ==
    /\ pc[w] = "ro_item"
    /\ loc[w].todo = <<>>
    /\ Respond(w, Ok(HTTP_200_OK, req[w].order_id))
    /\ UNCHANGED <<elsewhere, db, catalog, req, nreq, initial_stock, pre>>

\* ------------------------------------------------------- ProductService
\* the row of product p, as a query returns it and as the cache stores it
Row(p) == [id |-> p, price |-> price[p], stock |-> stock[p]]

\* the rows repository.get_all / get_by_category return
Listed(category_id) ==
    {Row(p) : p \in {q \in exists : category_id = 0 \/ CategoryOf[q] = category_id}}

\* the products in the order of their ids
ProductsById == <<"p1", "p2">>

\* product_repository.py lines 18-24 (and repository.get_all): the rows of
\* the category, or of all products, after .offset(skip).limit(limit)
Paged(skip, limit, category_id) ==
    LET listed(p) == p \in exists /\ (category_id = 0 \/ CategoryOf[p] = category_id)
        found == SelectSeq(ProductsById, listed)
        last == IF skip + limit < Len(found) THEN skip + limit ELSE Len(found)
    IN  {Row(found[i]) : i \in (skip + 1)..last}

\* the keys holding the row r
HeldBy(r) == {k \in CacheKeys : cache[k].hit /\ r \in cache[k].val}

Data(code, rows) == [NoResult EXCEPT !.code = code, !.data = rows]

\* get_product_by_id has the product (rows): the endpoint returns it,
\* update_product and delete_product go on to their write
HaveProduct(w, op, rows) ==
    IF op = "get_product"
    THEN Respond(w, Data(HTTP_200_OK, rows))
    ELSE /\ pc' = [pc EXCEPT ![w] = IF op = "update_product" THEN "up_commit"
                                     ELSE "dp_commit"]
         /\ loc' = [loc EXCEPT ![w] = [NoLoc EXCEPT !.val = rows]]
         /\ UNCHANGED result

\* lines 64-72: GET /products/{id}, PUT /products/{id} (lines 107-110) and
\* DELETE /products/{id} (lines 131-134) start with get_product_by_id, which
\* starts with get_from_cache
ProductCacheGet(w, op, p, new_price, new_stock) ==
    /\ MayBegin(w)
    /\ nreq' = nreq + 1
    /\ req' = [req EXCEPT ![w] =
                  [NoReq EXCEPT !.op = op, !.product = p,
                                !.price = new_price, !.stock = new_stock]]
    /\ pre' = [pre EXCEPT ![w] = FirstGet(Snapshot(<<>>, None))]
    /\ IF get_from_cache(DetailKey(p)).hit
         THEN HaveProduct(w, op, get_from_cache(DetailKey(p)).val)
         ELSE /\ pc' = [pc EXCEPT ![w] = "gp_db"]
              /\ UNCHANGED <<loc, result>>
    /\ UNCHANGED <<elsewhere, db, catalog, initial_stock>>

\* lines 75-80: repository.get_by_id, 404 if there is no row
ProductDbRead(w) ==
    /\ pc[w] = "gp_db"
    /\ IF req[w].product \notin exists
         THEN Respond(w, Err(HTTP_404_NOT_FOUND, "no_product"))
         ELSE /\ pc' = [pc EXCEPT ![w] = "gp_set"]
              /\ loc' = [loc EXCEPT ![w].val = {Row(req[w].product)}]
              /\ UNCHANGED result
    /\ UNCHANGED <<elsewhere, db, catalog, req, nreq, initial_stock, pre>>

\* lines 83-86: set_in_cache(cache_key, cache_data, ttl=600)
ProductCacheSet(w) ==
    /\ pc[w] = "gp_set"
    /\ cache' = set_in_cache(DetailKey(req[w].product), loc[w].val)
    /\ pre' = Failed(w, "set")
    /\ HaveProduct(w, req[w].op, loc[w].val)
    /\ UNCHANGED <<elsewhere, db, lastupd, req, nreq, initial_stock>>

\* lines 36-46: GET /products, get_from_cache on the list key
PageCacheGet(w, skip, limit, category_id) ==
    /\ MayBegin(w)
    /\ nreq' = nreq + 1
    /\ req' = [req EXCEPT ![w] =
                  [NoReq EXCEPT !.op = "get_all", !.category = category_id,
                                !.skip = skip, !.limit = limit]]
    /\ pre' = [pre EXCEPT ![w] = FirstGet(Snapshot(<<>>, None))]
    /\ IF get_from_cache(PageKey(skip, limit, category_id)).hit
         THEN Respond(w, Data(HTTP_200_OK,
                              get_from_cache(PageKey(skip, limit, category_id)).val))
         ELSE /\ pc' = [pc EXCEPT ![w] = "gl_db"]
              /\ UNCHANGED <<loc, result>>
    /\ UNCHANGED <<elsewhere, db, catalog, initial_stock>>

\* GET /products with skip and limit at their defaults
ListCacheGet(w, category_id) ==
    PageCacheGet(w, DefaultSkip, DefaultLimit, category_id)

\* lines 49-52: repository.get_by_category or repository.get_all
ListDbRead(w) ==
    /\ pc[w] = "gl_db"
    /\ loc' = [loc EXCEPT ![w].val = Paged(req[w].skip, req[w].limit,
                                           req[w].category)]
    /\ pc' = [pc EXCEPT ![w] = "gl_set"]
    /\ UNCHANGED <<elsewhere, db, catalog, req, result, nreq, initial_stock, pre>>

\* lines 55-62: a list that is not empty is cached, ttl=300
ListCacheSet(w) ==
    /\ pc[w] = "gl_set"
    /\ cache' = IF loc[w].val # {}
                THEN set_in_cache(PageKey(req[w].skip, req[w].limit,
                                          req[w].category), loc[w].val)
                ELSE cache
    /\ pre' = IF loc[w].val # {} THEN Failed(w, "set") ELSE pre
    /\ Respond(w, Data(HTTP_200_OK, loc[w].val))
    /\ UNCHANGED <<elsewhere, db, lastupd, req, nreq, initial_stock>>

\* the TTL of a key runs out
CacheExpire(k) ==
    /\ cache[k].hit
    /\ cache' = [cache EXCEPT ![k] = CacheMiss]
    /\ UNCHANGED <<elsewhere, db, lastupd, pc, req, loc, result, nreq, initial_stock, pre>>

\* lines 126-127 and 140-141: the patterns a write of product p invalidates
Invalidated(p) == <<Exactly(DetailKey(p)), StartingWith(<<"products", "list">>)>>

\* the pattern of the bulk operations: every key of the products
AllProductKeys == StartingWith(<<"products">>)

\* history: the row product p had before this write and the keys holding it
Written(p) == [done |-> TRUE, old |-> {Row(p)}, cached |-> HeldBy(Row(p)) # {}]

\* lines 121-123: repository.update(db_product, update_data) writes the
\* fields the request carries and commits
UpdateProductCommit(w) ==
    /\ pc[w] = "up_commit"
    /\ LET p == req[w].product
       IN  /\ price' = IF req[w].price # Unset /\ p \in exists
                       THEN [price EXCEPT ![p] = req[w].price] ELSE price
           /\ stock' = IF req[w].stock # Unset /\ p \in exists
                       THEN [stock EXCEPT ![p] = req[w].stock] ELSE stock
           /\ lastupd' = [lastupd EXCEPT ![p] = Written(p)]
           /\ loc' = [loc EXCEPT ![w].patterns = Invalidated(p)]
    /\ pc' = [pc EXCEPT ![w] = "inv_keys"]
    /\ UNCHANGED <<elsewhere, cache, exists, carts, cart_items, orders, order_items,
                   req, result, nreq, initial_stock, pre>>

\* an order item refers to product p (order_items.product_id, RESTRICT)
Ordered(p) ==
    \E o \in DOMAIN order_items :
        \E i \in 1..Len(order_items[o]) : order_items[o][i].product_id = p

\* cart_items.product_id is ON DELETE CASCADE
WithoutProduct(items, p) == SelectSeq(items, LAMBDA it : it.product_id # p)

\* lines 136-137: repository.delete(product_id) deletes the row and commits;
\* the database refuses while an order item refers to the product
DeleteProductCommit(w) ==
    /\ pc[w] = "dp_commit"
    /\ LET p == req[w].product
       IN  IF Ordered(p)
           THEN /\ Respond(w, Err(HTTP_500_INTERNAL_SERVER_ERROR, "integrity"))
                /\ UNCHANGED <<elsewhere, db, catalog>>
           ELSE /\ exists' = exists \ {p}
                /\ cart_items' = [u \in Users |-> WithoutProduct(cart_items[u], p)]
                /\ lastupd' = IF p \in exists
                              THEN [lastupd EXCEPT ![p] = Written(p)] ELSE lastupd
                /\ loc' = [loc EXCEPT ![w].patterns = Invalidated(p)]
                /\ pc' = [pc EXCEPT ![w] = "inv_keys"]
                /\ UNCHANGED <<elsewhere, cache, stock, price, carts, orders, order_items,
                               result>>
    /\ UNCHANGED <<req, nreq, initial_stock, pre>>

\* the deletion left out
KeysToDeleteNone(pattern) == {}

\* cache.py line 125: redis_client.keys(pattern)
KeysToDelete(pattern) == {k \in CacheKeys : cache[k].hit /\ Matches(pattern, k)}

\* the handler goes on after a pattern: the next pattern, or its response
AfterPattern(w) ==
    IF Tail(loc[w].patterns) # <<>>
      THEN /\ loc' = [loc EXCEPT ![w].patterns = Tail(loc[w].patterns),
                                 ![w].keys = {}]
           /\ pc' = [pc EXCEPT ![w] = "inv_keys"]
           /\ UNCHANGED result
    ELSE IF req[w].op = "update_product"
      THEN Respond(w, Data(HTTP_200_OK,
                           IF req[w].product \in exists
                           THEN {Row(req[w].product)} ELSE {}))
    ELSE IF req[w].op \in {"create_category", "update_category"}
      THEN Respond(w, Ok(IF req[w].op = "create_category"
                         THEN HTTP_201_CREATED ELSE HTTP_200_OK, 0))
    ELSE Respond(w, Data(HTTP_204_NO_CONTENT, {}))

\* delete_pattern_from_cache, first half: the keys matching the pattern;
\* it returns 0 without the cache
InvalidateKeys(w) ==
    /\ pc[w] = "inv_keys"
    /\ pre' = Failed(w, "keys")
    /\ IF Unavailable
         THEN AfterPattern(w)
         ELSE /\ loc' = [loc EXCEPT ![w].keys = KeysToDelete(Head(loc[w].patterns))]
              /\ pc' = [pc EXCEPT ![w] = "inv_delete"]
              /\ UNCHANGED result
    /\ UNCHANGED <<elsewhere, db, catalog, req, nreq, initial_stock>>

\* delete_pattern_from_cache, second half (lines 126-128):
\* redis_client.delete(*keys) if there are keys; after the last pattern the
\* handler returns
InvalidateDelete(w) ==
    /\ pc[w] = "inv_delete"
    /\ cache' = [k \in CacheKeys |->
                    IF k \in loc[w].keys /\ ~Unavailable
                    THEN CacheMiss ELSE cache[k]]
    /\ pre' = IF loc[w].keys # {} THEN Failed(w, "delete") ELSE pre
    /\ AfterPattern(w)
    /\ UNCHANGED <<elsewhere, db, lastupd, req, nreq, initial_stock>>

\* ------------------------------------------------------ CategoryService
\* the rows of table categories
CategoryRows == {c \in CategoryIds :
                    categories[c] \notin {NoCategory, DeletedCategory}}

\* a category as get_category_by_id caches it
CategoryRow(c) == [id |-> c, name |-> categories[c]]

\* lines 33-45: the categories, each with its product_count
CategoriesListed ==
    {[id |-> c, name |-> categories[c],
      product_count |-> Cardinality({p \in exists : CategoryOf[p] = c})] :
        c \in CategoryRows}

\* category_repository.py lines 18-20: exists_by_name
exists_by_name(name) == \E c \in CategoryRows : categories[c] = name

\* the product lists left alone
CategoryInvalidatedCategoriesOnly == <<StartingWith(<<"categories">>)>>

\* lines 87-89, 111-112 and 125-126: the patterns a category write invalidates
CategoryInvalidated ==
    <<StartingWith(<<"categories">>), StartingWith(<<"products", "list">>)>>

\* lines 22-30: GET /categories, get_from_cache on the list key
CategoryListCacheGet(w) ==
    /\ MayBegin(w)
    /\ nreq' = nreq + 1
    /\ req' = [req EXCEPT ![w] = [NoReq EXCEPT !.op = "get_categories"]]
    /\ pre' = [pre EXCEPT ![w] = FirstGet(Snapshot(<<>>, None))]
    /\ IF get_from_cache(CategoryListKey).hit
         THEN Respond(w, Data(HTTP_200_OK, get_from_cache(CategoryListKey).val))
         ELSE /\ pc' = [pc EXCEPT ![w] = "cl_db"]
              /\ UNCHANGED <<loc, result>>
    /\ UNCHANGED <<elsewhere, db, catalog, initial_stock>>

\* lines 33-37: repository.get_all and the product counts
CategoryListDbRead(w) ==
    /\ pc[w] = "cl_db"
    /\ loc' = [loc EXCEPT ![w].val = CategoriesListed]
    /\ pc' = [pc EXCEPT ![w] = "cl_set"]
    /\ UNCHANGED <<elsewhere, db, catalog, req, result, nreq, initial_stock, pre>>

\* lines 40-48: a list that is not empty is cached, ttl=600
CategoryListCacheSet(w) ==
    /\ pc[w] = "cl_set"
    /\ cache' = IF loc[w].val # {}
                THEN set_in_cache(CategoryListKey, loc[w].val) ELSE cache
    /\ pre' = IF loc[w].val # {} THEN Failed(w, "set") ELSE pre
    /\ Respond(w, Data(HTTP_200_OK, loc[w].val))
    /\ UNCHANGED <<elsewhere, db, lastupd, req, nreq, initial_stock>>

\* get_category_by_id has the category (rows): the endpoint returns it,
\* update_category (lines 99-104) and delete_category go on
HaveCategory(w, op, rows) ==
    IF op = "get_category"
    THEN Respond(w, Data(HTTP_200_OK, rows))
    ELSE /\ pc' = [pc EXCEPT ![w] = IF op = "update_category" THEN "cat_name"
                                     ELSE "cat_commit"]
         /\ loc' = [loc EXCEPT ![w] = [NoLoc EXCEPT !.val = rows]]
         /\ UNCHANGED result

\* lines 50-58: GET, PUT (line 96) and DELETE /categories/{id} (line 119)
\* start with get_category_by_id, which starts with get_from_cache
CategoryCacheGet(w, op, c, name) ==
    /\ MayBegin(w)
    /\ nreq' = nreq + 1
    /\ req' = [req EXCEPT ![w] =
                  [NoReq EXCEPT !.op = op, !.category = c, !.name = name]]
    /\ pre' = [pre EXCEPT ![w] = FirstGet(Snapshot(<<>>, None))]
    /\ IF get_from_cache(CategoryKey(c)).hit
         THEN HaveCategory(w, op, get_from_cache(CategoryKey(c)).val)
         ELSE /\ pc' = [pc EXCEPT ![w] = "cg_db"]
              /\ UNCHANGED <<loc, result>>
    /\ UNCHANGED <<elsewhere, db, catalog, initial_stock>>

\* lines 61-66: repository.get_by_id, 404 if there is no row
CategoryDbRead(w) ==
    /\ pc[w] = "cg_db"
    /\ IF req[w].category \notin CategoryRows
         THEN Respond(w, Err(HTTP_404_NOT_FOUND, "no_category"))
         ELSE /\ pc' = [pc EXCEPT ![w] = "cg_set"]
              /\ loc' = [loc EXCEPT ![w].val = {CategoryRow(req[w].category)}]
              /\ UNCHANGED result
    /\ UNCHANGED <<elsewhere, db, catalog, req, nreq, initial_stock, pre>>

\* lines 69-72: set_in_cache(cache_key, cache_data, ttl=600)
CategoryCacheSet(w) ==
    /\ pc[w] = "cg_set"
    /\ cache' = set_in_cache(CategoryKey(req[w].category), loc[w].val)
    /\ pre' = Failed(w, "set")
    /\ HaveCategory(w, req[w].op, loc[w].val)
    /\ UNCHANGED <<elsewhere, db, lastupd, req, nreq, initial_stock>>

\* the name of another category accepted
NameTakenUnchecked(name) == FALSE

\* lines 77 and 100: the name belongs to a category
NameTaken(name) == exists_by_name(name)

\* lines 99-104: a changed name must not belong to a category; a request
\* without a name (name "") changes the description only
UpdateCategoryName(w) ==
    /\ pc[w] = "cat_name"
    /\ LET category == CHOOSE r \in loc[w].val : TRUE
       IN  IF /\ req[w].name # ""
              /\ req[w].name # category.name
              /\ NameTaken(req[w].name)
           THEN Respond(w, Err(HTTP_400_BAD_REQUEST, "name_exists"))
           ELSE /\ pc' = [pc EXCEPT ![w] = "cat_commit"]
                /\ UNCHANGED <<loc, result>>
    /\ UNCHANGED <<elsewhere, db, catalog, req, nreq, initial_stock, pre>>

\* the id the sequence of table categories gives next, 0 when the ids of
\* the model are used up
NextCategoryId ==
    LET free == {c \in CategoryIds : categories[c] = NoCategory}
    IN  IF free = {} THEN 0 ELSE CHOOSE c \in free : \A d \in free : c <= d

\* lines 77-83: POST /categories, the name must not belong to a category
CreateCategoryLoad(w, name) ==
    /\ MayBegin(w)
    /\ NextCategoryId # 0
    /\ nreq' = nreq + 1
    /\ req' = [req EXCEPT ![w] =
                  [NoReq EXCEPT !.op = "create_category", !.name = name]]
    /\ pre' = [pre EXCEPT ![w] = Snapshot(<<>>, None)]
    /\ IF NameTaken(name)
         THEN Respond(w, Err(HTTP_400_BAD_REQUEST, "name_exists"))
         ELSE /\ pc' = [pc EXCEPT ![w] = "cat_commit"]
              /\ UNCHANGED <<loc, result>>
    /\ UNCHANGED <<elsewhere, db, catalog, initial_stock>>

\* table categories after the write of the request
CategoryWritten(w) ==
    LET c == req[w].category
    IN  IF req[w].op = "create_category"
          THEN [categories EXCEPT ![NextCategoryId] = req[w].name]
        ELSE IF c \notin CategoryRows THEN categories
        ELSE IF req[w].op = "delete_category"
          THEN [categories EXCEPT ![c] = DeletedCategory]
        ELSE IF req[w].name # ""
          THEN [categories EXCEPT ![c] = req[w].name]
        ELSE categories

\* lines 84, 108 and 122: repository.create, repository.update and
\* repository.delete write the row and commit
CategoryCommit(w) ==
    /\ pc[w] = "cat_commit"
    /\ req[w].op = "create_category" => NextCategoryId # 0
    /\ categories' = CategoryWritten(w)
    /\ loc' = [loc EXCEPT ![w].patterns = CategoryInvalidated]
    /\ pc' = [pc EXCEPT ![w] = "inv_keys"]
    /\ UNCHANGED <<auth, redis, db, catalog, req, result, nreq, initial_stock, pre>>

\* ----------------------------------------------------------- AuthService
\* models/refresh_token.py lines 24-29, within the token's lifetime
is_valid(t) == auth.refresh[t] = "valid"

\* refresh_token_repository.py lines 58-64: revoke_token
Revoked(t) ==
    IF auth.refresh[t] = "none" THEN auth.refresh
    ELSE [auth.refresh EXCEPT ![t] = "revoked"]

\* refresh_token_repository.py lines 77-82: revoke_all_user_tokens
RevokedAll(u) ==
    [t \in RefreshTokens |->
        IF t[1] = u /\ auth.refresh[t] = "valid" THEN "revoked"
        ELSE auth.refresh[t]]

\* the tokens of user u in the table
StoredOf(u) == {t \in RefreshTokens : t[1] = u /\ auth.refresh[t] # "none"}

\* auth_service.py lines 199-224: the token is decoded, looked up and must
\* be valid (401 otherwise)
RefreshLoad(w, t) ==
    /\ MayBegin(w)
    /\ nreq' = nreq + 1
    /\ req' = [req EXCEPT ![w] =
                  [NoReq EXCEPT !.op = "refresh_access_token", !.token = t,
                                !.user_id = t[1]]]
    /\ pre' = [pre EXCEPT ![w] = Snapshot(<<>>, None)]
    /\ IF ~is_valid(t)
         THEN Respond(w, Err(401, "invalid_or_revoked"))
         ELSE /\ pc' = [pc EXCEPT ![w] = "rf_revoke"]
              /\ UNCHANGED <<loc, result>>
    /\ UNCHANGED <<elsewhere, db, catalog, initial_stock>>

\* line 227: revoke_token(refresh_token), committed
RefreshRevoke(w) ==
    /\ pc[w] = "rf_revoke"
    /\ auth' = [auth EXCEPT !.refresh = Revoked(req[w].token)]
    /\ pc' = [pc EXCEPT ![w] = "rf_create"]
    /\ UNCHANGED <<categories, redis, db, catalog, req, loc, result, nreq,
                   initial_stock, pre>>

\* lines 241-260: the new token is created and stored; refresh_tokens.token
\* is unique, so storing a string the table holds fails
RefreshCreate(w) ==
    /\ pc[w] = "rf_create"
    /\ LET t == req[w].token
           new == create_refresh_token(req[w].user_id, auth.now)
       IN  IF auth.refresh[new] # "none"
           THEN /\ Respond(w, Err(HTTP_500_INTERNAL_SERVER_ERROR, "integrity"))
                /\ UNCHANGED auth
           ELSE /\ auth' = [auth EXCEPT
                               !.refresh = [@ EXCEPT ![new] = "valid"],
                               !.used = [@ EXCEPT ![t] = @ + 1],
                               !.late = IF t \in auth.killed
                                        THEN @ \cup {t} ELSE @]
                /\ Respond(w, [Ok(HTTP_200_OK, 0) EXCEPT !.data = {new}])
    /\ UNCHANGED <<categories, redis, db, catalog, req, nreq, initial_stock, pre>>

\* lines 262-272: logout revokes the token
Logout(w, t) ==
    /\ MayBegin(w)
    /\ nreq' = nreq + 1
    /\ req' = [req EXCEPT ![w] = [NoReq EXCEPT !.op = "logout", !.token = t]]
    /\ pre' = [pre EXCEPT ![w] = Snapshot(<<>>, None)]
    /\ auth' = [auth EXCEPT
                   !.refresh = Revoked(t),
                   !.killed = IF auth.refresh[t] # "none" THEN @ \cup {t} ELSE @]
    /\ Respond(w, Ok(HTTP_200_OK, 0))
    /\ UNCHANGED <<categories, redis, db, catalog, initial_stock>>

\* lines 274-284: logout_all_sessions revokes the tokens of the user
LogoutAllSessions(w, u) ==
    /\ MayBegin(w)
    /\ nreq' = nreq + 1
    /\ req' = [req EXCEPT ![w] =
                  [NoReq EXCEPT !.op = "logout_all_sessions", !.user_id = u]]
    /\ pre' = [pre EXCEPT ![w] = Snapshot(<<>>, None)]
    /\ auth' = [auth EXCEPT !.refresh = RevokedAll(u),
                             !.killed = @ \cup StoredOf(u)]
    /\ Respond(w, Ok(HTTP_200_OK, 0))
    /\ UNCHANGED <<categories, redis, db, catalog, initial_stock>>

\* lines 352-377: the reset token must be valid (400 otherwise); the
\* password is written and the reset token marked as used
ResetPasswordLoad(w, u) ==
    /\ MayBegin(w)
    /\ nreq' = nreq + 1
    /\ req' = [req EXCEPT ![w] =
                  [NoReq EXCEPT !.op = "reset_password", !.user_id = u]]
    /\ pre' = [pre EXCEPT ![w] = Snapshot(<<>>, None)]
    /\ IF auth.reset[u] # "valid"
         THEN /\ Respond(w, Err(HTTP_400_BAD_REQUEST, "invalid_reset_token"))
              /\ UNCHANGED auth
         ELSE /\ auth' = [auth EXCEPT !.reset = [@ EXCEPT ![u] = "used"]]
              /\ pc' = [pc EXCEPT ![w] = "rp_revoke"]
              /\ UNCHANGED <<loc, result>>
    /\ UNCHANGED <<categories, redis, db, catalog, initial_stock>>

\* line 380: revoke_all_user_tokens(user.id)
ResetPasswordRevoke(w) ==
    /\ pc[w] = "rp_revoke"
    /\ auth' = [auth EXCEPT !.refresh = RevokedAll(req[w].user_id),
                             !.killed = @ \cup StoredOf(req[w].user_id)]
    /\ Respond(w, Ok(HTTP_200_OK, 0))
    /\ UNCHANGED <<categories, redis, db, catalog, req, nreq, initial_stock, pre>>

\* a second passes
Tick ==
    /\ auth.now < MaxTick
    /\ auth' = [auth EXCEPT !.now = @ + 1]
    /\ UNCHANGED <<categories, redis, db, catalog, pc, req, loc, result, nreq,
                   initial_stock, pre>>

\* --------------------------------------------------------- specifications
Callers == Users \cup {None}
OrderIds == 1..(Len(orders) + 1)

CreateSteps(w) ==
    \/ \E u \in Users : CreateOrderLoad(w, u)
    \/ CreateOrderCommitOrder(w)
    \/ CreateOrderCommitItems(w)
    \/ CreateOrderReloadCart(w)
    \/ CreateOrderDecrement(w)
    \/ CreateOrderClearCart(w)

CancelSteps(w) ==
    \/ \E c \in Callers, o \in OrderIds : CancelOrderLoad(w, c, o)
    \/ CancelOrderCommit(w)

\* update_order requests asking for one of the statuses Sts, or for none
UpdateSteps(w, Sts) ==
    \/ \E c \in Callers, o \in OrderIds, st \in Sts \cup {None},
          f \in BOOLEAN : UpdateOrderLoad(w, c, o, st, f)
    \/ UpdateOrderCommit(w)

OneItemP1 == {<<Item("p1", q)>> : q \in 1..MaxQty}
AnyList == OneItemLists \cup TwoItemLists

\* every handler, requests overlapping, with crashes
Init ==
    /\ InitWith([u \in Users |-> IF u = "u1" THEN CartsOf({<<Item("p1", 1)>>})
                                  ELSE {NoCart}],
                EarlierOrders({"u2"}, {PENDING}, {<<Item("p1", 1)>>}))
    /\ stock["p2"] = 0

Next ==
    \E w \in Workers :
        \/ CreateSteps(w)
        \/ CancelSteps(w)
        \/ UpdateSteps(w, {SHIPPED, CANCELLED})
        \/ Return(w)
        \/ Abort(w)

Spec == Init /\ [][Next]_vars

\* overlapping create_order_from_cart requests only
InitCreate == InitWith([u \in Users |-> CartsOf(OneItemLists)], {<<>>})

NextCreate == \E w \in Workers : CreateSteps(w) \/ Return(w)

SpecCreate == InitCreate /\ [][NextCreate]_vars

\* overlapping create_order_from_cart and cancel_order requests
InitRace ==
    InitWith([u \in Users |-> CartsOf(OneItemP1)],
             EarlierOrders({"u1"}, {PENDING}, OneItemP1))

NextRace ==
    \E w \in Workers : CreateSteps(w) \/ CancelSteps(w) \/ Return(w)

SpecRace == InitRace /\ [][NextRace]_vars

\* one worker: every call runs to completion before the next starts
Serial == {"w1"}

SerialCarts ==
    [u \in Users |-> IF u = "u1" THEN {NoCart} \cup CartsOf({<<>>} \cup AnyList)
                     ELSE {NoCart} \cup CartsOf({<<Item("p1", 1)>>})]

SerialEarlier ==
    EarlierOrders({"u1"}, OrderStatus,
                  {<<Item("p1", 1)>>, <<Item("p1", MaxQty), Item("p2", 1)>>})

InitSerial == InitWith(SerialCarts, SerialEarlier)

\* create_order_from_cart and cancel_order
NextSerial == \E w \in Serial : CreateSteps(w) \/ CancelSteps(w) \/ Return(w)

SpecSerial == InitSerial /\ [][NextSerial]_vars

\* create_order_from_cart, cancel_order and update_order
NextSerialUpd ==
    \E w \in Serial :
        CreateSteps(w) \/ CancelSteps(w) \/ UpdateSteps(w, OrderStatus) \/ Return(w)

InitSerialUpd ==
    InitWith([u \in Users |-> IF u = "u1" THEN CartsOf(OneItemP1) ELSE {NoCart}],
             SerialEarlier)

SpecSerialUpd == InitSerialUpd /\ [][NextSerialUpd]_vars

\* create_order_from_cart and cancel_order, a call may die half way
NextSerialAbort ==
    \E w \in Serial :
        CreateSteps(w) \/ CancelSteps(w) \/ Return(w) \/ Abort(w)

InitSerialAbort ==
    InitWith([u \in Users |-> IF u = "u1" THEN CartsOf(TwoItemLists) ELSE {NoCart}],
             SerialEarlier)

SpecSerialAbort == InitSerialAbort /\ [][NextSerialAbort]_vars

\* overlapping cancel_order requests only
InitCancel ==
    InitWith([u \in Users |-> {NoCart}], SerialEarlier \ {<<>>})

NextCancel == \E w \in Workers : CancelSteps(w) \/ Return(w)

SpecCancel == InitCancel /\ [][NextCancel]_vars

\* cancel_order and update_order on one order placed earlier by u1, one
\* call at a time
InitStatus ==
    InitWith([u \in Users |-> {NoCart}],
             EarlierOrders({"u1"}, OrderStatus, {<<Item("p1", 1)>>}) \ {<<>>})

NextStatus ==
    \E w \in Serial :
        CancelSteps(w) \/ UpdateSteps(w, OrderStatus) \/ Return(w)

SpecStatus == InitStatus /\ [][NextStatus]_vars

\* the prices and stocks a PUT /products/{id} may carry
PriceChoices == {Unset, 1999}
StockChoices == {Unset, 0, MaxStock}

ReadSteps(w) ==
    \/ \E p \in Products : ProductCacheGet(w, "get_product", p, Unset, Unset)
    \/ ProductDbRead(w)
    \/ ProductCacheSet(w)
    \/ \E c \in {0} \cup Categories : ListCacheGet(w, c)
    \/ ListDbRead(w)
    \/ ListCacheSet(w)

WriteSteps(w) ==
    \/ \E p \in Products, np \in PriceChoices, ns \in StockChoices :
          ProductCacheGet(w, "update_product", p, np, ns)
    \/ \E p \in Products : ProductCacheGet(w, "delete_product", p, Unset, Unset)
    \/ UpdateProductCommit(w)
    \/ DeleteProductCommit(w)
    \/ InvalidateKeys(w)
    \/ InvalidateDelete(w)

\* the cart calls of user u with the quantities Qs
CartSteps(w, u, Qs) ==
    \/ \E p \in Products, q \in Qs : AddToCartLoad(w, u, p, q)
    \/ AddToCartGetCart(w)
    \/ AddToCartCreateCart(w)
    \/ AddToCartGetItem(w)
    \/ AddToCartCommit(w)
    \/ \E p \in Products, q \in Qs : UpdateCartItemLoad(w, u, p, q)
    \/ UpdateCartItemCommit(w)
    \/ \E p \in Products : RemoveFromCartLoad(w, u, p)
    \/ RemoveFromCartCommit(w)
    \/ ClearCartLoad(w, u)
    \/ ClearCartCommit(w)

\* OrderService.reorder called for user u
ReorderSteps(w, u) ==
    \/ \E o \in OrderIds : ReorderLoad(w, u, o)
    \/ ReorderGetCart(w)
    \/ ReorderItem(w)
    \/ ReorderCommit(w)

\* PUT /products/{id} with a new price, and DELETE /products/{id}
PriceSteps(w) ==
    \/ \E p \in Products : ProductCacheGet(w, "update_product", p, 1999, Unset)
    \/ \E p \in Products : ProductCacheGet(w, "delete_product", p, Unset, Unset)
    \/ ProductDbRead(w)
    \/ ProductCacheSet(w)
    \/ UpdateProductCommit(w)
    \/ DeleteProductCommit(w)
    \/ InvalidateKeys(w)
    \/ InvalidateDelete(w)

\* orders, carts and prices changing, one call at a time
InitImmutable ==
    /\ InitWith([u \in Users |-> IF u = "u1" THEN {NoCart} \cup CartsOf(OneItemP1)
                                  ELSE {NoCart}],
                EarlierOrders({"u1"}, {PENDING}, {<<Item("p1", 1), Item("p2", 1)>>}))
    /\ stock = [p \in Products |-> MaxStock]

NextImmutable ==
    \E w \in Serial :
        \/ CreateSteps(w)
        \/ CancelSteps(w)
        \/ UpdateSteps(w, {SHIPPED})
        \/ CartSteps(w, "u1", {1, MaxQty})
        \/ PriceSteps(w)
        \/ Return(w)

SpecImmutable == InitImmutable /\ [][NextImmutable]_vars

\* the catalogue: reads through the cache and writes of ProductService, one
\* call at a time; p1 may be in an order placed earlier
InitCatalog ==
    /\ InitWith([u \in Users |-> {NoCart}],
                EarlierOrders({"u1"}, {PENDING}, {<<Item("p1", 1)>>}))
    /\ stock = [p \in Products |-> MaxStock - 1]

NextCatalog ==
    \/ \E w \in Serial : ReadSteps(w) \/ WriteSteps(w) \/ Return(w)
    \/ \E k \in CacheKeys : CacheExpire(k)

SpecCatalog == InitCatalog /\ [][NextCatalog]_vars

\* catalogue reads and create_order_from_cart, one call at a time
InitOrderCache ==
    InitWith([u \in Users |-> IF u = "u1" THEN CartsOf(OneItemLists) ELSE {NoCart}],
             {<<>>})

NextOrderCache ==
    \/ \E w \in Serial : ReadSteps(w) \/ CreateSteps(w) \/ Return(w)
    \/ \E k \in CacheKeys : CacheExpire(k)

SpecOrderCache == InitOrderCache /\ [][NextOrderCache]_vars

\* the calls of CategoryService; the categories deleted hold no product
CategorySteps(w) ==
    \/ CategoryListCacheGet(w)
    \/ CategoryListDbRead(w)
    \/ CategoryListCacheSet(w)
    \/ \E c \in {1, 3} : CategoryCacheGet(w, "get_category", c, "")
    \/ \E c \in {1, 3}, name \in {"", "drinks", "sauces"} :
          CategoryCacheGet(w, "update_category", c, name)
    \/ CategoryCacheGet(w, "delete_category", 3, "")
    \/ CategoryDbRead(w)
    \/ CategoryCacheSet(w)
    \/ UpdateCategoryName(w)
    \/ \E name \in {"drinks", "sauces"} : CreateCategoryLoad(w, name)
    \/ CategoryCommit(w)
    \/ InvalidateKeys(w)
    \/ InvalidateDelete(w)

\* categories read and written and product lists read, one call at a time
InitCategory ==
    /\ InitWith([u \in Users |-> {NoCart}], {<<>>})
    /\ stock = [p \in Products |-> MaxStock]

NextCategory ==
    \E w \in Serial :
        \/ CategorySteps(w)
        \/ \E c \in {0, 1} : ListCacheGet(w, c)
        \/ ListDbRead(w)
        \/ ListCacheSet(w)
        \/ Return(w)

SpecCategory == InitCategory /\ [][NextCategory]_vars

\* the connection to Redis is lost, or comes back
RedisFlip ==
    /\ redis \in {"up", "down"}
    /\ redis' = IF redis = "up" THEN "down" ELSE "up"
    /\ UNCHANGED <<categories, auth, db, catalog, pc, req, loc, result, nreq,
                   initial_stock, pre>>

\* the catalogue and the categories with a cache that is switched off, has
\* no client, or whose connection comes and goes; one call at a time
InitNoCache ==
    /\ InitBase([u \in Users |-> {NoCart}], {<<>>})
    /\ stock = [p \in Products |-> MaxStock]
    /\ categories = InitialCategories
    /\ auth = NoAuth
    /\ redis \in {"up", "disabled", "absent"}

NextNoCache ==
    \/ \E w \in Serial :
          \/ ProductCacheGet(w, "get_product", "p1", Unset, Unset)
          \/ ProductCacheGet(w, "update_product", "p1", 1999, MaxStock - 1)
          \/ ProductDbRead(w)
          \/ ProductCacheSet(w)
          \/ UpdateProductCommit(w)
          \/ ListCacheGet(w, 0)
          \/ ListDbRead(w)
          \/ ListCacheSet(w)
          \/ CategorySteps(w)
          \/ Return(w)
    \/ RedisFlip

SpecNoCache == InitNoCache /\ [][NextNoCache]_vars

\* the cart of u1 changed by every cart call, by reorder and by
\* create_order_from_cart, and p2 deleted from the catalogue, one call at a
\* time; the order placed earlier is u1's or u2's
InitCart ==
    /\ InitWith([u \in Users |->
                    IF u = "u1"
                    THEN {NoCart} \cup CartsOf({<<>>, <<Item("p1", 1)>>,
                                               <<Item("p2", MaxQty), Item("p1", 1)>>})
                    ELSE CartsOf({<<Item("p1", 1)>>})],
                EarlierOrders(Users, {DELIVERED},
                              {<<Item("p1", MaxQty)>>,
                               <<Item("p1", 1), Item("p2", MaxQty)>>}))
    /\ stock["p2"] \in {0, MaxStock}

NextCart ==
    \E w \in Serial :
        \/ CartSteps(w, "u1", {1, MaxQty})
        \/ ReorderSteps(w, "u1")
        \/ CreateOrderLoad(w, "u1")
        \/ CreateOrderCommitOrder(w)
        \/ CreateOrderCommitItems(w)
        \/ CreateOrderReloadCart(w)
        \/ CreateOrderDecrement(w)
        \/ CreateOrderClearCart(w)
        \/ ProductCacheGet(w, "delete_product", "p2", Unset, Unset)
        \/ ProductDbRead(w)
        \/ ProductCacheSet(w)
        \/ DeleteProductCommit(w)
        \/ InvalidateKeys(w)
        \/ InvalidateDelete(w)
        \/ Return(w)

SpecCart == InitCart /\ [][NextCart]_vars

\* overlapping create_order_from_cart requests of u1 and u2, and reorder
\* requests of u1 that run while no other request does
InitOversold ==
    /\ InitWith([u \in Users |-> CartsOf({<<Item("p1", 1)>>})], {<<>>})
    /\ stock["p2"] = MaxStock

NextOversold ==
    \E w \in Workers :
        \/ CreateSteps(w) /\ \A v \in Workers : req[v].op # "reorder"
        \/ ReorderSteps(w, "u1")
              /\ \A v \in Workers \ {w} : pc[v] \in {"idle", "done"}
        \/ Return(w)

SpecOversold == InitOversold /\ [][NextOversold]_vars

\* reads of p1 and of the catalogue overlapping updates of p1; no key
\* expires
InitCacheRace ==
    /\ InitWith([u \in Users |-> {NoCart}], {<<>>})
    /\ stock = [p \in Products |-> MaxStock]

NextCacheRace ==
    \E w \in Workers :
        \/ ProductCacheGet(w, "get_product", "p1", Unset, Unset)
        \/ ProductCacheGet(w, "update_product", "p1", 1999, Unset)
        \/ ProductDbRead(w)
        \/ ProductCacheSet(w)
        \/ ListCacheGet(w, 0)
        \/ ListDbRead(w)
        \/ ListCacheSet(w)
        \/ UpdateProductCommit(w)
        \/ InvalidateKeys(w)
        \/ InvalidateDelete(w)
        \/ Return(w)

SpecCacheRace == InitCacheRace /\ [][NextCacheRace]_vars

\* overlapping add_to_cart requests of u1
InitCartRace ==
    /\ InitWith([u \in Users |->
                    IF u = "u1"
                    THEN {NoCart} \cup CartsOf({<<>>, <<Item("p1", 1)>>})
                    ELSE {NoCart}],
                {<<>>})
    /\ stock["p2"] = MaxStock

NextCartRace ==
    \E w \in Workers :
        \/ \E p \in Products, q \in 1..MaxQty : AddToCartLoad(w, "u1", p, q)
        \/ AddToCartGetCart(w)
        \/ AddToCartCreateCart(w)
        \/ AddToCartGetItem(w)
        \/ AddToCartCommit(w)
        \/ Return(w)

SpecCartRace == InitCartRace /\ [][NextCartRace]_vars

\* the sessions of u1: refresh, logout, logout of all sessions and password
\* reset overlapping; u1 and u2 logged in at second 0 and u1 asked for a
\* password reset
InitAuth ==
    /\ InitBase([u \in Users |-> {NoCart}], {<<>>})
    /\ stock = [p \in Products |-> MaxStock]
    /\ categories = InitialCategories
    /\ redis = "up"
    /\ auth = [NoAuth EXCEPT
                 !.refresh = [t \in RefreshTokens |->
                                 IF t[2] = 0 THEN "valid" ELSE "none"],
                 !.reset = [u \in Users |-> IF u = "u1" THEN "valid" ELSE "none"]]

AuthSteps(w) ==
    \/ \E t \in StoredOf("u1") : RefreshLoad(w, t)
    \/ RefreshRevoke(w)
    \/ RefreshCreate(w)
    \/ \E t \in StoredOf("u1") : Logout(w, t)
    \/ LogoutAllSessions(w, "u1")
    \/ ResetPasswordLoad(w, "u1")
    \/ ResetPasswordRevoke(w)

NextAuth ==
    \/ \E w \in Workers : AuthSteps(w) \/ Return(w)
    \/ Tick

SpecAuth == InitAuth /\ [][NextAuth]_vars

\* the same calls, one at a time
NextAuthSerial ==
    \/ \E w \in Serial : AuthSteps(w) \/ Return(w)
    \/ Tick

SpecAuthSerial == InitAuth /\ [][NextAuthSerial]_vars

\* pages of the catalogue read with every skip, limit and category, and
\* products read, updated and deleted, one call at a time
InitKeys ==
    /\ InitWith([u \in Users |-> {NoCart}], {<<>>})
    /\ stock = [p \in Products |-> MaxStock]

NextKeys ==
    \E w \in Serial :
        \/ \E sk \in Skips, lm \in Limits, c \in {0} \cup Categories :
              PageCacheGet(w, sk, lm, c)
        \/ ListDbRead(w)
        \/ ListCacheSet(w)
        \/ \E p \in Products : ProductCacheGet(w, "get_product", p, Unset, Unset)
        \/ \E p \in Products : ProductCacheGet(w, "update_product", p, 1999, Unset)
        \/ \E p \in Products : ProductCacheGet(w, "delete_product", p, Unset, Unset)
        \/ ProductDbRead(w)
        \/ ProductCacheSet(w)
        \/ UpdateProductCommit(w)
        \/ DeleteProductCommit(w)
        \/ InvalidateKeys(w)
        \/ InvalidateDelete(w)
        \/ Return(w)

SpecKeys == InitKeys /\ [][NextKeys]_vars


\* ================================================================= claims
\* quantity of product p held by the orders that are not cancelled
SoldQty(p) ==
    LET RECURSIVE go(_)
        go(o) == IF o = 0 THEN 0
                 ELSE (IF orders[o].status # CANCELLED
                       THEN ItemQty(order_items[o], p) ELSE 0) + go(o - 1)
    IN  go(Len(orders))

\* quantity of product p held by all orders
OrderedQty(p) ==
    LET RECURSIVE go(_)
        go(o) == IF o = 0 THEN 0 ELSE ItemQty(order_items[o], p) + go(o - 1)
    IN  go(Len(orders))

Quiescent == \A w \in Workers : pc[w] \in {"idle", "done"}

Cancellable == {PENDING, CONFIRMED, PROCESSING}

\* C1: with overlapping create_order_from_cart requests, no product's stock
\* is ever negative and the quantity placed in orders never exceeds the
\* stock the product started with.
C1_NoOversell ==
    \A p \in Products : stock[p] >= 0 /\ OrderedQty(p) <= initial_stock[p]

\* C2: overlapping create_order_from_cart and cancel_order requests end in a
\* state some serial execution of them produces; every serial execution
\* leaves stock = initial stock - quantity in non-cancelled orders, so once
\* all requests have completed no decrement or restoration is lost.
C2_NoLostUpdate ==
    Quiescent => \A p \in Products : stock[p] = initial_stock[p] - SoldQty(p)

\* C3: after any sequence of completed create_order_from_cart and
\* cancel_order calls, each product's stock is its initial stock minus the
\* quantities of its items in the orders that are not cancelled.
C3_StockConservation ==
    \A w \in Serial :
        pc[w] \in {"idle", "done"} =>
            \A p \in Products : initial_stock[p] - stock[p] = SoldQty(p)

C3_Witness ==
    \E w \in Serial :
        /\ pc[w] = "done" /\ req[w].op = "cancel"
        /\ result[w].code = HTTP_200_OK
        /\ \E o \in DOMAIN orders :
            /\ orders[o].status # CANCELLED
            /\ o > 1
            /\ order_items[o] # <<>>
        /\ \E p \in Products : pre[w].stock[p] < stock[p]


\* C4: with update_order among the calls, each product's stock plus the
\* quantities of its items in non-cancelled orders still equals its initial
\* stock: an order that is cancelled has had its quantities added back.
C4_ConservedAcrossUpdates ==
    \A w \in Serial :
        pc[w] \in {"idle", "done"} =>
            \A p \in Products : stock[p] + SoldQty(p) = initial_stock[p]

\* C5: a create_order_from_cart that is aborted leaves none of its writes:
\* no order of its own, the stocks and the cart as it found them.
C5_AllOrNothing ==
    \A w \in Serial :
        pc[w] = "aborted" /\ req[w].op = "create" =>
            /\ Len(orders) = pre[w].norders
            /\ stock = pre[w].stock
            /\ cart_items[req[w].user_id] = pre[w].items

\* the cart items whose quantity exceeds the stock the request found
ShortItems(w) ==
    {i \in 1..Len(pre[w].items) :
        pre[w].items[i].quantity > pre[w].stock[pre[w].items[i].product_id]}

\* C6: a create_order_from_cart whose cart holds an item with quantity above
\* its product's stock answers 400 insufficient stock, naming such an item's
\* product, its stock and the quantity asked, and has changed no table.
C6_InsufficientStockRejected ==
    \A w \in Serial :
        pc[w] = "done" /\ req[w].op = "create" /\ ShortItems(w) # {} =>
            /\ result[w].code = HTTP_400_BAD_REQUEST
            /\ result[w].err = "insufficient_stock"
            /\ \E i \in ShortItems(w) :
                /\ result[w].product = pre[w].items[i].product_id
                /\ result[w].available = pre[w].stock[pre[w].items[i].product_id]
                /\ result[w].requested = pre[w].items[i].quantity
            /\ Len(orders) = pre[w].norders
            /\ Len(order_items) = pre[w].norders
            /\ stock = pre[w].stock
            /\ cart_items[req[w].user_id] = pre[w].items

C6_Witness ==
    \E w \in Serial :
        /\ pc[w] = "done" /\ req[w].op = "create"
        /\ result[w].err = "insufficient_stock"
        /\ ShortItems(w) = {2}
        /\ pre[w].stock[pre[w].items[1].product_id] > 0

\* C7: a successful create_order_from_cart has added exactly one order, in
\* status pending, whose items are the cart's (product, quantity) pairs at
\* the price found, subtotal = quantity x price, total = their sum rounded
\* to hundredths; each stock is lower by the quantity ordered; the cart row
\* is still there and has no items.
C7_OrderFromCart ==
    \A w \in Serial :
        pc[w] = "done" /\ req[w].op = "create"
                       /\ result[w].code = HTTP_201_CREATED =>
            LET o     == Len(orders)
                cart  == pre[w].items
                its   == order_items[o]
                total == orders[o].total_amount
                raw   == SeqSum(its, LAMBDA d : d.quantity * d.unit_price)
            IN  /\ o = pre[w].norders + 1
                /\ result[w].order_id = o
                /\ orders[o].status = PENDING
                /\ orders[o].user_id = req[w].user_id
                /\ Len(its) = Len(cart) /\ Len(cart) > 0
                /\ \A i \in 1..Len(cart) :
                    /\ its[i].product_id = cart[i].product_id
                    /\ its[i].quantity = cart[i].quantity
                    /\ its[i].unit_price = pre[w].price[cart[i].product_id]
                    /\ its[i].subtotal = cart[i].quantity * its[i].unit_price
                /\ total % 10 = 0
                /\ total - raw <= 5 /\ raw - total <= 5
                /\ \A p \in Products :
                    stock[p] = pre[w].stock[p] - ItemQty(cart, p)
                /\ req[w].user_id \in carts
                /\ cart_items[req[w].user_id] = <<>>

C7_Witness ==
    \E w \in Serial :
        /\ pc[w] = "done" /\ req[w].op = "create"
        /\ result[w].code = HTTP_201_CREATED
        /\ Len(pre[w].items) = 2
        /\ pre[w].items[1].quantity = 2
        /\ orders[Len(orders)].total_amount # SeqSum(order_items[Len(orders)], Subtotal)
        /\ \A p \in Products : stock[p] < pre[w].stock[p]


\* C8: while cancel_order requests for the same order overlap, the stock of
\* each ordered product is restored at most once: it never exceeds the
\* initial stock and always is the initial stock minus the quantities held
\* by the orders that are not cancelled.
C8_RestoredAtMostOnce ==
    \A p \in Products :
        /\ stock[p] <= initial_stock[p]
        /\ initial_stock[p] = SoldQty(p) + stock[p]

C8_Witness ==
    /\ \A w \in Workers :
        /\ pc[w] = "done" /\ req[w].op = "cancel"
        /\ result[w].code = HTTP_200_OK
        /\ pre[w].status \in Cancellable
    /\ req["w1"].order_id = req["w2"].order_id
    /\ orders[req["w1"].order_id].status = CANCELLED
    /\ \E p \in Products : stock[p] > pre["w1"].stock[p]

\* a step in which some worker completes a cancel_order
CancelCompletes(w) == pc[w] = "cancel_commit" /\ pc'[w] = "done"

\* C9: the step that completes a cancel_order of a pending, confirmed or
\* processing order adds each item quantity to its product's stock and sets
\* the status to cancelled together; no other step of a cancel_order, an
\* abort in its middle included, changes a stock or the order.
C9_CancelAtomic ==
    [][\A w \in Serial :
        /\ CancelCompletes(w) =>
            LET o == req[w].order_id
            IN  /\ orders[o].status \in Cancellable
                /\ orders'[o].status = CANCELLED
                /\ \A p \in Products :
                    stock'[p] = stock[p] + ItemQty(order_items[o], p)
        /\ (req[w].op = "cancel" /\ req'[w].op = "cancel" /\ ~CancelCompletes(w)) =>
            stock' = stock /\ orders' = orders
        /\ (\E p \in Products : stock'[p] > stock[p]) =>
            \E o \in DOMAIN orders :
                orders[o].status # CANCELLED /\ orders'[o].status = CANCELLED
      ]_vars

C9_Witness ==
    \E w \in Serial :
        /\ pc[w] = "done" /\ req[w].op = "cancel"
        /\ result[w].code = HTTP_200_OK
        /\ pre[w].status = PROCESSING
        /\ Len(pre[w].items) = 2
        /\ orders[req[w].order_id].status = CANCELLED
        /\ \A p \in Products : stock[p] > pre[w].stock[p]

\* the caller passes the ownership check of cancel_order
MayCancel(w) ==
    req[w].user_id = None \/ orders[req[w].order_id].user_id = req[w].user_id

\* C10: cancel_order on a shipped, delivered or cancelled order is rejected
\* (400 for a caller who may cancel the order, 403 for any other) and leaves
\* the order's status and every stock as they were.
C10_LateCancelRejected ==
    \A w \in Serial :
        pc[w] = "done" /\ req[w].op = "cancel"
                       /\ pre[w].status \in {SHIPPED, DELIVERED, CANCELLED} =>
            /\ result[w].code =
                   IF MayCancel(w) THEN HTTP_400_BAD_REQUEST ELSE HTTP_403_FORBIDDEN
            /\ orders[req[w].order_id].status = pre[w].status
            /\ stock = pre[w].stock

C10_Witness ==
    \E w \in Serial :
        /\ pc[w] = "done" /\ req[w].op = "cancel"
        /\ pre[w].status = SHIPPED
        /\ req[w].user_id = orders[req[w].order_id].user_id
        /\ result[w].err = "cannot_cancel"
        /\ pre[w].items # <<>>

\* ------------------------------------------------------- order life cycle
\* position of a status on pending -> confirmed -> processing -> shipped ->
\* delivered, with cancelled after all of them
Rank(st) ==
    CASE st = PENDING -> 1
      [] st = CONFIRMED -> 2
      [] st = PROCESSING -> 3
      [] st = SHIPPED -> 4
      [] st = DELIVERED -> 5
      [] st = CANCELLED -> 6

Terminal == {DELIVERED, CANCELLED}

\* worker w has answered a cancel_order or update_order call on an order
\* that exists
AnsweredOn(w, op) ==
    /\ pc[w] = "done"
    /\ req[w].op = op
    /\ req[w].order_id \in DOMAIN orders

\* the caller of w's request is a customer who does not own the order
Stranger(w) ==
    /\ req[w].user_id # None
    /\ req[w].user_id # orders[req[w].order_id].user_id

\* C11: whichever operation performs the change, an order's status becomes
\* cancelled only from pending, confirmed or processing; never directly
\* from shipped or delivered.
C11_CancelledOnlyFromOpen ==
    [][\A o \in DOMAIN orders :
          (orders'[o].status = CANCELLED /\ orders[o].status # CANCELLED)
              => orders[o].status \in Cancellable]_vars

\* C12: delivered and cancelled are terminal: no update_order or
\* cancel_order call changes the status of an order that is delivered or
\* cancelled, and a call that asks for it is rejected: with 400, or with
\* 403 when the ownership check comes first.
C12_TerminalStatus ==
    [][\A o \in DOMAIN orders :
          orders[o].status \in Terminal =>
            /\ orders'[o].status = orders[o].status
            /\ \A w \in Serial :
                 ( /\ pc[w] = "idle" /\ pc'[w] # "idle"
                   /\ req'[w].order_id = o
                   /\ \/ req'[w].op = "cancel"
                      \/ /\ req'[w].op = "update"
                         /\ req'[w].status \notin {None, orders[o].status} )
                 => /\ pc'[w] = "done"
                    /\ result'[w].code =
                         IF /\ req'[w].user_id \notin {None, orders[o].user_id}
                            /\ (req'[w].op = "cancel" \/ req'[w].fields)
                         THEN HTTP_403_FORBIDDEN
                         ELSE HTTP_400_BAD_REQUEST]_vars

C12_Witness ==
    \E w \in Serial :
        /\ AnsweredOn(w, "update")
        /\ pre[w].status = DELIVERED
        /\ req[w].status = PENDING
        /\ req[w].user_id = None
        /\ result[w].code = HTTP_400_BAD_REQUEST
        /\ orders[req[w].order_id].status = DELIVERED

\* C13: no operation changes an order's status to one that precedes its
\* current status on pending -> confirmed -> processing -> shipped ->
\* delivered (or cancelled).
C13_StatusMovesForward ==
    [][\A o \in DOMAIN orders :
          Rank(orders'[o].status) >= Rank(orders[o].status)]_vars

\* C14: an update_order call by the owner or an admin on a cancelled order
\* is rejected with 400 and leaves the order as it was, whether it carries
\* a status, customer fields or both.
C14_CancelledOrderFrozen ==
    \A w \in Serial :
        ( /\ AnsweredOn(w, "update")
          /\ ~Stranger(w)
          /\ pre[w].status = CANCELLED )
        => /\ result[w].code = HTTP_400_BAD_REQUEST
           /\ orders[req[w].order_id].status = CANCELLED
           /\ orders[req[w].order_id].customer_name = pre[w].customer

\* C15: cancel_order and update_order reject a caller who is neither the
\* owner nor an admin with 403, whatever the request carries and whatever
\* the order's status, and neither the order nor any stock is modified.
C15_StrangerForbidden ==
    \A w \in Serial :
        ( /\ (AnsweredOn(w, "cancel") \/ AnsweredOn(w, "update"))
          /\ Stranger(w) )
        => /\ result[w].code = HTTP_403_FORBIDDEN
           /\ orders[req[w].order_id].status = pre[w].status
           /\ orders[req[w].order_id].customer_name = pre[w].customer
           /\ stock = pre[w].stock

\* C16: an update_order call made by a caller who is not an admin never
\* changes the order's status.
C16_StatusChangeAdminOnly ==
    \A w \in Serial :
        (AnsweredOn(w, "update") /\ req[w].user_id # None)
            => orders[req[w].order_id].status = pre[w].status

\* ---------------------------------------------- create_order_from_cart
\* nothing the database holds about orders, stock or carts differs from
\* what worker w's request found
NothingWritten(w) ==
    /\ Len(orders) = pre[w].norders
    /\ stock = pre[w].stock
    /\ carts = pre[w].carts
    /\ cart_items = pre[w].cart_items

\* C18: create_order_from_cart answers 404 when the user has no cart and
\* 400 when the cart has no items, and in both cases creates no order and
\* changes no stock and no cart.
C18_NoCartOrEmptyCart ==
    \A w \in Serial :
        (pc[w] = "done" /\ req[w].op = "create") =>
            /\ req[w].user_id \notin pre[w].carts =>
                   result[w].code = HTTP_404_NOT_FOUND /\ NothingWritten(w)
            /\ ( /\ req[w].user_id \in pre[w].carts
                 /\ pre[w].cart_items[req[w].user_id] = <<>> ) =>
                   result[w].code = HTTP_400_BAD_REQUEST /\ NothingWritten(w)

C18_Witness ==
    \E w \in Serial :
        /\ pc[w] = "done" /\ req[w].op = "create"
        /\ req[w].user_id \in pre[w].carts
        /\ pre[w].cart_items[req[w].user_id] = <<>>
        /\ result[w].code = HTTP_400_BAD_REQUEST
        /\ pre[w].norders > 0
        /\ \E p \in Products : pre[w].stock[p] > 0

\* ------------------------------------------------------ cache invalidation
\* worker w has answered a catalogue call
Served(w, op, code) ==
    pc[w] = "done" /\ req[w].op = op /\ result[w].code = code

C20_ReadsSeeOrderedStock ==
    \A w \in Serial :
        (Served(w, "get_product", HTTP_200_OK) \/ Served(w, "get_all", HTTP_200_OK))
            => \A r \in result[w].data : r.stock = stock[r.id]

\* ------------------------------------------------------- order immutability
\* order o has its items: no create_order_from_cart is between the commit
\* of the order and the commit of its items
Placed(o) ==
    ~ \E w \in Workers : pc[w] = "co_add_items" /\ loc[w].order_id = o

\* C17: once an order is created, no later operation (update_product,
\* delete_product, update_order, cancel_order, a cart call, a later
\* create_order_from_cart) changes its total_amount, its set of OrderItems
\* or an item's quantity, unit_price or subtotal.
C17_OrderImmutable ==
    [][\A o \in DOMAIN orders :
          Placed(o) => /\ o \in DOMAIN orders'
                       /\ orders'[o].total_amount = orders[o].total_amount
                       /\ order_items'[o] = order_items[o]]_vars

C17_Witness ==
    \E w \in Serial :
        /\ AnsweredOn(w, "update")
        /\ result[w].code = HTTP_200_OK
        /\ LET o == req[w].order_id
           IN  /\ order_items[o] # <<>>
               /\ order_items[o] # ItemsData(order_items[o], price)
               /\ orders[o].total_amount = Round2(SeqSum(order_items[o], Subtotal))

\* the elements of a sequence
Range(s) == {s[i] : i \in 1..Len(s)}

\* the categories a request found when it arrived
RowsBefore(w) ==
    {c \in CategoryIds :
        pre[w].categories[c] \notin {NoCategory, DeletedCategory}}

\* the request of w ran without the cache: its get_from_cache, or a call
\* of a request that has none, went unanswered
WithoutCache(w) ==
    \/ "get" \in Range(pre[w].failed)
    \/ req[w].op = "create_category" /\ pre[w].failed # <<>>

\* the name the request gives belonged to a category when it arrived
NameWasTaken(w) ==
    \E c \in RowsBefore(w) : pre[w].categories[c] = req[w].name

\* what the database alone answers to the request of w, and what it holds
\* afterwards
AnsweredByDatabase(w) ==
    LET r == result[w]
        p == req[w].product
        c == req[w].category
        n == req[w].name
    IN  CASE req[w].op = "get_product" ->
                 r.code = HTTP_200_OK /\ r.data = {Row(p)}
          [] req[w].op = "get_all" ->
                 /\ r.code = HTTP_200_OK
                 /\ r.data = {Row(q) : q \in {x \in exists :
                                  c = 0 \/ CategoryOf[x] = c}}
          [] req[w].op = "update_product" ->
                 /\ r.code = HTTP_200_OK
                 /\ r.data = {[id |-> p, price |-> req[w].price,
                               stock |-> req[w].stock]}
                 /\ price[p] = req[w].price
                 /\ stock[p] = req[w].stock
          [] req[w].op = "get_categories" ->
                 /\ r.code = HTTP_200_OK
                 /\ {[id |-> x.id, name |-> x.name] : x \in r.data}
                        = {[id |-> d, name |-> categories[d]] : d \in RowsBefore(w)}
          [] req[w].op = "get_category" ->
                 IF c \in RowsBefore(w)
                 THEN r.code = HTTP_200_OK
                      /\ r.data = {[id |-> c, name |-> categories[c]]}
                 ELSE r.code = HTTP_404_NOT_FOUND
          [] req[w].op = "create_category" ->
                 IF NameWasTaken(w)
                 THEN r.code = HTTP_400_BAD_REQUEST
                      /\ categories = pre[w].categories
                 ELSE r.code = HTTP_201_CREATED
                      /\ \E d \in CategoryIds \ RowsBefore(w) : categories[d] = n
          [] req[w].op = "update_category" ->
                 IF c \notin RowsBefore(w)
                   THEN r.code = HTTP_404_NOT_FOUND
                        /\ categories = pre[w].categories
                 ELSE IF n # "" /\ n # pre[w].categories[c] /\ NameWasTaken(w)
                   THEN r.code = HTTP_400_BAD_REQUEST
                        /\ categories = pre[w].categories
                 ELSE r.code = HTTP_200_OK
                      /\ categories[c] = IF n = "" THEN pre[w].categories[c] ELSE n
          [] req[w].op = "delete_category" ->
                 IF c \notin RowsBefore(w)
                 THEN r.code = HTTP_404_NOT_FOUND
                      /\ categories = pre[w].categories
                 ELSE r.code = HTTP_204_NO_CONTENT
                      /\ categories[c] = DeletedCategory
          [] OTHER -> TRUE

\* C21: a cache call that goes unanswered (caching switched off, no client,
\* or an exception) never makes a request fail, and a request whose cache
\* read went unanswered is answered from the database and commits its write
\* as if there were no cache
C21_CacheFailureTransparent ==
    \A w \in Serial :
        pc[w] = "done" =>
            /\ result[w].code # HTTP_500_INTERNAL_SERVER_ERROR
            /\ WithoutCache(w) => AnsweredByDatabase(w)

\* a read answered from the database while Redis holds an older value of
\* the product, its invalidation having failed
C21_Witness ==
    \E w \in Serial :
        /\ pc[w] = "done"
        /\ req[w].op = "get_product"
        /\ "get" \in Range(pre[w].failed)
        /\ result[w].data = {Row("p1")}
        /\ cache[DetailKey("p1")].hit
        /\ cache[DetailKey("p1")].val # {Row("p1")}

CategoryWrites == {"create_category", "update_category", "delete_category"}

\* a key of the form categories:... or products:list:...
CategoryOrListKey(k) ==
    \/ k[1] = "categories"
    \/ Len(k) >= 3 /\ k[1] = "products" /\ k[3] = "list"

\* C22: when create_category, update_category or delete_category succeeds,
\* no key categories:* or products:list:* is left in the cache, so category
\* reads and product list reads return what the database holds; a category
\* write that is rejected (400 duplicate name, 404 not found) leaves table
\* categories as it was
C22_CategoryWriteInvalidates ==
    \A w \in Serial :
        pc[w] = "done" =>
            /\ (req[w].op \in CategoryWrites
                    /\ result[w].code \in {HTTP_200_OK, HTTP_201_CREATED,
                                           HTTP_204_NO_CONTENT})
                => /\ \A k \in CacheKeys : CategoryOrListKey(k) => ~cache[k].hit
                   /\ categories # pre[w].categories
                        \/ req[w].name \in {"", pre[w].categories[req[w].category]}
            /\ (req[w].op \in CategoryWrites
                    /\ result[w].code \in {HTTP_400_BAD_REQUEST, HTTP_404_NOT_FOUND})
                => categories = pre[w].categories
            /\ req[w].op = "get_categories"
                => result[w].data = CategoriesListed
            /\ (req[w].op = "get_category" /\ result[w].code = HTTP_200_OK)
                => result[w].data = {[id |-> req[w].category,
                                      name |-> categories[req[w].category]]}
            /\ req[w].op = "get_all"
                => result[w].data = Listed(req[w].category)

\* a category read that returns a name written by an earlier request
C22_Witness ==
    \E w \in Serial :
        /\ pc[w] = "done"
        /\ req[w].op = "get_category"
        /\ result[w].code = HTTP_200_OK
        /\ result[w].data = {[id |-> req[w].category,
                              name |-> categories[req[w].category]]}
        /\ categories[req[w].category] # InitialCategories[req[w].category]

\* the (skip, limit, category_id) of GET /products
PageParams == Skips \X Limits \X ({0} \cup Categories)

KeyOfPage(a) == PageKey(a[1], a[2], a[3])
RowsOfPage(a) == Paged(a[1], a[2], a[3])

\* C23: pages that hold different rows have different keys; the key
\* get_all_products has written matches products:list:* and products:*; the
\* key get_product_by_id(p) has written is the one pattern update_product and
\* delete_product delete for p, which is gone after they return and which
\* is the key of no other product
C23_KeysMatchPatterns ==
    /\ \A a \in PageParams, b \in PageParams :
          RowsOfPage(a) # RowsOfPage(b) => KeyOfPage(a) # KeyOfPage(b)
    /\ \A p \in Products, q \in Products :
          Matches(Invalidated(p)[1], DetailKey(q)) <=> p = q
    /\ \A w \in Serial :
          pc[w] = "done" =>
            LET k == PageKey(req[w].skip, req[w].limit, req[w].category)
                d == DetailKey(req[w].product)
            IN  /\ (req[w].op = "get_all" /\ result[w].data # {})
                    => /\ cache[k] = [hit |-> TRUE, val |-> result[w].data]
                       /\ Matches(Invalidated("p1")[2], k)
                       /\ Matches(AllProductKeys, k)
                       /\ \A p \in Products : k # DetailKey(p)
                /\ (req[w].op = "get_product" /\ result[w].code = HTTP_200_OK)
                    => /\ cache[d] = [hit |-> TRUE, val |-> result[w].data]
                       /\ Matches(Invalidated(req[w].product)[1], d)
                       /\ Matches(AllProductKeys, d)
                /\ (req[w].op \in {"update_product", "delete_product"}
                        /\ result[w].code \in {HTTP_200_OK, HTTP_204_NO_CONTENT})
                    => \A c \in CacheKeys :
                          cache[c].hit => /\ c[1] = "products"
                                          /\ c[3] = "detail"
                                          /\ c # d

\* a product updated while a page and the details of both products were
\* cached: the detail of the other product is all that is left
C23_Witness ==
    \E w \in Serial :
        /\ pc[w] = "done"
        /\ req[w].op = "update_product"
        /\ result[w].code = HTTP_200_OK
        /\ \E q \in Products \ {req[w].product} : cache[DetailKey(q)].hit
        /\ lastupd[req[w].product].cached

\* the number of items of product p in a cart
Rows(items, p) == Cardinality({i \in 1..Len(items) : items[i].product_id = p})

\* C24: once a call has run to completion every cart holds at most one item
\* per product, and an add_to_cart that succeeds for a product already in
\* the cart has added the requested quantity to its item, the cart keeping
\* the items it had
C24_OneItemPerProduct ==
    /\ (\A w \in Serial : pc[w] \in {"idle", "done"})
        => \A u \in Users, p \in Products : Rows(cart_items[u], p) <= 1
    /\ \A w \in Serial :
          (/\ pc[w] = "done"
           /\ req[w].op = "add_to_cart"
           /\ result[w].code = HTTP_200_OK
           /\ Rows(pre[w].items, req[w].product) = 1)
          => LET now == cart_items[req[w].user_id]
                 was == pre[w].items
             IN  /\ Len(now) = Len(was)
                 /\ \A i \in 1..Len(was) :
                       /\ now[i].product_id = was[i].product_id
                       /\ now[i].quantity =
                            was[i].quantity
                              + (IF was[i].product_id = req[w].product
                                 THEN req[w].quantity ELSE 0)

\* the second add_to_cart of a product: one item with both quantities
C24_Witness ==
    \E w \in Serial :
        /\ pc[w] = "done"
        /\ req[w].op = "add_to_cart"
        /\ result[w].code = HTTP_200_OK
        /\ Rows(pre[w].items, req[w].product) = 1
        /\ Rows(cart_items[req[w].user_id], req[w].product) = 1
        /\ Len(cart_items[req[w].user_id]) = 2

\* the request of w is answered with an error
Refused(w, code) == pc[w] = "done" /\ result[w].code = code

\* the carts are as the request of w found them
CartsUntouched(w) ==
    carts = pre[w].carts /\ cart_items = pre[w].cart_items

\* C25: add_to_cart succeeds only for a product of the catalogue whose
\* stock covers the quantity in the cart plus the requested one, and
\* update_cart_item only for a quantity the stock covers; for a product that
\* is gone they answer 404, for a quantity the stock does not cover 400
\* (update_cart_item: 404 when the user has no cart at all), and the cart
\* items and quantities stay as they were
C25_StockCheckedOnCartWrite ==
    \A w \in Serial :
        LET p == req[w].product
            q == req[w].quantity
            held == IF Rows(pre[w].items, p) = 0 THEN 0
                    ELSE pre[w].items[CHOOSE i \in 1..Len(pre[w].items) :
                                        pre[w].items[i].product_id = p].quantity
            wanted == IF req[w].op = "add_to_cart" THEN held + q ELSE q
        IN  (pc[w] = "done" /\ req[w].op \in {"add_to_cart", "update_cart_item"})
            => /\ result[w].code \in {HTTP_200_OK, HTTP_400_BAD_REQUEST,
                                      HTTP_404_NOT_FOUND}
               /\ result[w].code = HTTP_200_OK
                    => p \in exists /\ wanted <= pre[w].stock[p]
               /\ result[w].code # HTTP_200_OK
                    => cart_items = pre[w].cart_items
               /\ (p \notin exists) => result[w].code = HTTP_404_NOT_FOUND
               /\ (p \in exists /\ wanted > pre[w].stock[p])
                    => IF req[w].op = "update_cart_item"
                          /\ req[w].user_id \notin pre[w].carts
                       THEN result[w].code = HTTP_404_NOT_FOUND
                       ELSE result[w].code = HTTP_400_BAD_REQUEST

\* an add_to_cart refused because the item in the cart and the requested
\* quantity together exceed the stock that covers each of them
C25_Witness ==
    \E w \in Serial :
        /\ Refused(w, HTTP_400_BAD_REQUEST)
        /\ req[w].op = "add_to_cart"
        /\ req[w].quantity <= stock[req[w].product]
        /\ Rows(cart_items[req[w].user_id], req[w].product) = 1
        /\ cart_items = pre[w].cart_items

\* C26: update_cart_item and remove_from_cart answer 404 whenever the user
\* has no cart or the cart has no item of the product, whatever the
\* quantity and the stock, and leave the carts as they were
C26_AbsentItemNotFound ==
    \A w \in Serial :
        (/\ pc[w] = "done"
         /\ req[w].op \in {"update_cart_item", "remove_from_cart"}
         /\ \/ req[w].user_id \notin pre[w].carts
            \/ Rows(pre[w].items, req[w].product) = 0)
        => /\ result[w].code = HTTP_404_NOT_FOUND
           /\ CartsUntouched(w)

Smaller(a, b) == IF a < b THEN a ELSE b

\* what a reorder that has returned left in the cart of its caller
ReorderedCart(w) ==
    LET u == req[w].user_id
        was == pre[w].items
        now == cart_items[u]
    IN  \A p \in Products :
          LET ordered == ItemQty(order_items[req[w].order_id], p)
          IN  IF ordered = 0 \/ p \notin exists \/ stock[p] = 0
              THEN /\ Rows(now, p) = Rows(was, p)
                   /\ ItemQty(now, p) = ItemQty(was, p)
              ELSE /\ Rows(now, p) = 1
                   /\ ItemQty(now, p) \in 1..stock[p]
                   /\ ItemQty(now, p) =
                        Smaller(ItemQty(was, p) + Smaller(ordered, stock[p]),
                                stock[p])

\* C30: no step of reorder changes a product, an order, an order item or
\* the cart of another user; when it returns, each ordered product that
\* exists and has stock has one item in the caller's cart, of a quantity
\* between 1 and the stock (the ordered quantity capped to the stock, added
\* to the item the cart had and capped again), and the other products are
\* as they were in the cart
C30_ReorderOnlyFillsCart ==
    [][\A w \in Workers :
          (req'[w].op = "reorder" /\ <<pc[w], loc[w]>>' # <<pc[w], loc[w]>>)
          => /\ UNCHANGED <<stock, price, exists, orders, order_items>>
             /\ \A u \in Users \ {req'[w].user_id} :
                   /\ cart_items'[u] = cart_items[u]
                   /\ u \in carts' <=> u \in carts
             /\ (pc'[w] = "done" /\ result'[w].code = HTTP_200_OK)
                   => ReorderedCart(w)']_vars

\* C27: once a read of a product, or of the catalogue, and an update of the
\* product that overlapped it have both returned, no key of the cache holds
\* a row the update has replaced
C27_NoStaleEntryAfterRace ==
    (\A w \in Workers : pc[w] \in {"idle", "done"})
    => \A k \in CacheKeys :
          cache[k].hit
          => \A r \in cache[k].val :
                r = [id |-> r.id, price |-> price[r.id], stock |-> stock[r.id]]

\* C28: once two add_to_cart requests of a user for the same product that
\* overlapped have both returned, the cart has at most one item of the
\* product; when both succeeded its quantity is what the cart held plus
\* both requested quantities, or plus one of them
C28_OneItemAfterRace ==
    Quiescent
    => /\ \A u \in Users, p \in Products : Rows(cart_items[u], p) <= 1
       /\ (/\ nreq = 2
           /\ \A w \in Workers :
                 /\ pc[w] = "done"
                 /\ req[w].op = "add_to_cart"
                 /\ req[w].product = "p1"
                 /\ result[w].code = HTTP_200_OK)
          => LET held == Smaller(ItemQty(pre["w1"].items, "p1"),
                                 ItemQty(pre["w2"].items, "p1"))
                 now == ItemQty(cart_items[req["w1"].user_id], "p1")
             IN  \/ now = held + req["w1"].quantity + req["w2"].quantity
                 \/ \E w \in Workers :
                       now = ItemQty(pre[w].items, "p1") + req[w].quantity

\* C29: a stored refresh token is used at most once: at most one
\* refresh_access_token call succeeds with it, and none succeeds with a
\* token that a logout, a logout of all sessions or a password reset has
\* revoked
C29_RefreshTokenSingleUse ==
    \A t \in RefreshTokens : auth.used[t] <= 1 /\ t \notin auth.late

====
